---- MODULE Spec2Model ----
(***************************************************************************)
(* XIPE emissions calculator: the calculation engine                       *)
(* (backend/app/core/calculations.py) and the route that serves it         *)
(* (backend/app/api/routes/calculations.py).                               *)
(*                                                                         *)
(* Numbers are exact rationals [n, d] in lowest terms with d > 0; the      *)
(* value NaN stands for a cell that a left join left empty.  Tables are    *)
(* data frames: a sequence of column names and a sequence of rows, each    *)
(* row carrying its "variable" label and one value per column.  Python     *)
(* positions are 0-based, sequences here are 1-based: iloc(df, i) is       *)
(* df.rows[i + 1].                                                         *)
(***************************************************************************)
EXTENDS Integers, Sequences, FiniteSets, TLC

VARIABLES pc, call, df_var_nms, df_var_trad, df_var_gen, df_calc, outcome, response,
          _variables_storage, variables_response,
          data_files, _data_loader, _data_loader_error, loads, data_response

\* the state of a calculation call
engine_vars == <<pc, call, df_var_nms, df_var_trad, df_var_gen, df_calc, outcome, response>>

\* the variable store of routes/variables.py and the answer of its last request
store_vars == <<_variables_storage, variables_response>>

\* the reference files on disk, the module globals of data_loader.py, the
\* number of times the files were read, and the answer of the last data request
loader_vars == <<data_files, _data_loader, _data_loader_error, loads, data_response>>

vars == <<engine_vars, store_vars, loader_vars>>

(***************************************************************************)
(* Exact rational arithmetic                                               *)
(***************************************************************************)
Abs(x) == IF x < 0 THEN 0 - x ELSE x

RECURSIVE GCD(_, _)
GCD(a, b) == IF b = 0 THEN a ELSE GCD(b, a % b)

Q(n, d) ==
    IF n = 0 THEN [n |-> 0, d |-> 1]
    ELSE IF d = 1 THEN [n |-> n, d |-> 1]
    ELSE LET s == IF d < 0 THEN 0 - 1 ELSE 1
             g == GCD(Abs(n), Abs(d))
         IN  [n |-> (s * n) \div g, d |-> (s * d) \div g]

Zero == [n |-> 0, d |-> 1]
One == [n |-> 1, d |-> 1]
NaN == [n |-> 0, d |-> 0]

IsNaN(a) == a.d = 0
IsZero(a) == a.d # 0 /\ a.n = 0

RAdd(a, b) ==
    IF a.d = 1 /\ b.d = 1 THEN [n |-> a.n + b.n, d |-> 1]
    ELSE LET g == GCD(a.d, b.d)
         IN  Q(a.n * (b.d \div g) + b.n * (a.d \div g), (a.d \div g) * b.d)

RNeg(a) == [n |-> 0 - a.n, d |-> a.d]

RSub(a, b) == RAdd(a, RNeg(b))

RMul(a, b) ==
    IF a.n = 0 \/ b.n = 0 THEN Zero
    ELSE IF a.d = 1 /\ b.d = 1 THEN [n |-> a.n * b.n, d |-> 1]
    ELSE LET g1 == GCD(Abs(a.n), b.d)
             g2 == GCD(Abs(b.n), a.d)
         IN  [n |-> (a.n \div g1) * (b.n \div g2),
              d |-> (a.d \div g2) * (b.d \div g1)]

\* a / b for b # 0
RDiv(a, b) ==
    RMul(a, IF b.n < 0 THEN [n |-> 0 - b.d, d |-> 0 - b.n]
            ELSE [n |-> b.d, d |-> b.n])

RLeq(a, b) == a.n * b.d <= b.n * a.d

\* pd.to_numeric(...).fillna(0)
fillna(a) == IF IsNaN(a) THEN Zero ELSE a

\* Python round(x, 0) of a float: nearest integer, ties to even
round(a) ==
    LET fl == a.n \div a.d
        twice == 2 * (a.n - fl * a.d)
    IN  IF twice < a.d THEN fl
        ELSE IF twice > a.d THEN fl + 1
        ELSE IF fl % 2 = 0 THEN fl ELSE fl + 1

\* Python int(x) of a float: truncation toward zero
int(a) == IF a.n >= 0 THEN a.n \div a.d ELSE 0 - ((0 - a.n) \div a.d)

RECURSIVE SumSeq(_)
SumSeq(s) == IF s = <<>> THEN Zero ELSE RAdd(Head(s), SumSeq(Tail(s)))

Range(s) == {s[i] : i \in DOMAIN s}

\* the elements of s satisfying Test, in order
RECURSIVE SelectSeqIdx(_, _, _)
SelectSeqIdx(s, keep, i) ==
    IF i > Len(s) THEN <<>>
    ELSE IF i \in keep THEN <<s[i]>> \o SelectSeqIdx(s, keep, i + 1)
    ELSE SelectSeqIdx(s, keep, i + 1)

RECURSIVE Flatten(_)
Flatten(ss) == IF ss = <<>> THEN <<>> ELSE Head(ss) \o Flatten(Tail(ss))

(***************************************************************************)
(* Constants of the engine                                                 *)
(***************************************************************************)
TRAD_TYPES == <<"private_car", "pt_road", "pt_rail", "cycling", "walking">>

NMS_TYPES == <<"Car", "Bike", "Moped", "e-Scooter", "Other">>

lst_var_nms == <<
    "Average number of trips per day",
    "Average Tank-to-Wheel CO2 emissions (g/km)",
    "Average NOx emissions (mg/km)",
    "Average PM emissions (mg/km)",
    "Average efficiency of the electric vehicle (kWh/km)",
    "Emission factor for life-cycle phases excluding use phase (gCO2/km)",
    "Replaces private car by (%)",
    "Replaces PT road by (%)",
    "Replaces PT rail by (%)",
    "Replaces cycling by (%)",
    "Replaces walking by (%)",
    "Average trip distance of the shared mode when replacing car (km)",
    "Average trip distance of the shared mode when replacing PT road (km)",
    "Average trip distance of the shared mode when replacing PT rail (km)",
    "Average trip distance of the shared mode when replacing cycling (km)",
    "Average trip distance of the shared mode when replacing walking (km)" >>

lst_var_trad == <<
    "CO2 emission factors Tank-to-Wheel (gr/km)",
    "Average NOx emissions (mg/km)",
    "Average PM emissions (mg/km)",
    "Average efficiency of public transport rail (kWh/km)",
    "Emission factor for life-cycle phases excluding use phase (gCO2/km)" >>

expected_columns ==
    <<"ICEcar", "ICEmoped", "bike", "ecar", "ebike", "emoped", "escooter",
      "other", "eother">>

\* str.strip() on the variable names the requests of this model carry
strip(s) ==
    IF s = "  Average NOx emissions (mg/km) " THEN "Average NOx emissions (mg/km)"
    ELSE s

Row(name, user, dflt) ==
    [variable |-> name, userInput |-> user, defaultValue |-> dflt]

(***************************************************************************)
(* Python dicts keep insertion order: keys is the order, val the mapping   *)
(***************************************************************************)
EmptyDict == [keys |-> <<>>, val |-> <<>>]

DictHas(d, k) == k \in Range(d.keys)

DictPut(d, k, v) ==
    IF DictHas(d, k)
    THEN [keys |-> d.keys, val |-> [x \in Range(d.keys) |-> IF x = k THEN v ELSE d.val[x]]]
    ELSE [keys |-> Append(d.keys, k),
          val |-> [x \in Range(d.keys) \cup {k} |-> IF x = k THEN v ELSE d.val[x]]]

\* a dict literal from a sequence of <<key, value>> pairs
RECURSIVE DictOf(_)
DictOf(pairs) ==
    IF pairs = <<>> THEN EmptyDict
    ELSE LET n == Len(pairs)
         IN  DictPut(DictOf(SubSeq(pairs, 1, n - 1)), pairs[n][1], pairs[n][2])

(***************************************************************************)
(* _prepare_nms_variables                                                  *)
(***************************************************************************)
\* numbers_nms with the e-Scooter fleet reduced to its electric share
RECURSIVE numbers_nms_scooter_share(_)
numbers_nms_scooter_share(shared_modes) ==
    IF shared_modes = <<>> THEN EmptyDict
    ELSE LET n == Len(shared_modes)
             prev == numbers_nms_scooter_share(SubSeq(shared_modes, 1, n - 1))
             mode == shared_modes[n]
             num_veh == mode.numVehicles
             perc_ev == mode.percentageElectric
             ice == RMul(num_veh, RDiv(RSub(Q(100, 1), perc_ev), Q(100, 1)))
             ev == RMul(num_veh, RDiv(perc_ev, Q(100, 1)))
         IN  CASE mode.mode = "Car" -> DictPut(DictPut(prev, "ICEcar", ice), "ecar", ev)
               [] mode.mode = "Bike" -> DictPut(DictPut(prev, "bike", ice), "ebike", ev)
               [] mode.mode = "Moped" -> DictPut(DictPut(prev, "ICEmoped", ice), "emoped", ev)
               [] mode.mode = "e-Scooter" -> DictPut(prev, "escooter", ev)
               [] mode.mode = "Other" -> DictPut(DictPut(prev, "other", ice), "eother", ev)
               [] OTHER -> prev

\* lines 115-137: vehicles per shared-service column, later entries overwrite
RECURSIVE numbers_nms(_)
numbers_nms(shared_modes) ==
    IF shared_modes = <<>> THEN EmptyDict
    ELSE LET n == Len(shared_modes)
             prev == numbers_nms(SubSeq(shared_modes, 1, n - 1))
             mode == shared_modes[n]
             num_veh == mode.numVehicles
             perc_ev == mode.percentageElectric
             ice == RMul(num_veh, RDiv(RSub(Q(100, 1), perc_ev), Q(100, 1)))
             ev == RMul(num_veh, RDiv(perc_ev, Q(100, 1)))
         IN  CASE mode.mode = "Car" -> DictPut(DictPut(prev, "ICEcar", ice), "ecar", ev)
               [] mode.mode = "Bike" -> DictPut(DictPut(prev, "bike", ice), "ebike", ev)
               [] mode.mode = "Moped" -> DictPut(DictPut(prev, "ICEmoped", ice), "emoped", ev)
               [] mode.mode = "e-Scooter" -> DictPut(prev, "escooter", num_veh)
               [] mode.mode = "Other" -> DictPut(DictPut(prev, "other", ice), "eother", ev)
               [] OTHER -> prev

\* lines 141-156: var_nms_* key to column name
nms_key_mapping(var_name) ==
    CASE var_name = "var_nms_ICEcar" -> "ICEcar"
      [] var_name = "var_nms_ICEmoped" -> "ICEmoped"
      [] var_name = "var_nms_bike" -> "bike"
      [] var_name = "var_nms_ev" -> "ecar"
      [] var_name = "var_nms_ebike" -> "ebike"
      [] var_name = "var_nms_emoped" -> "emoped"
      [] var_name = "var_nms_escooter" -> "escooter"
      [] var_name = "var_nms_other" -> "other"
      [] var_name = "var_nms_eother" -> "eother"
      \* var_name.replace("var_nms_", "") on the other keys of this model
      [] var_name = "var_nms_cargo" -> "cargo"
      [] var_name = "var_nms_ecar" -> "ecar"
      [] OTHER -> var_name

\* lines 153-157
RECURSIVE var_nms_all(_)
var_nms_all(shared_services_vars) ==
    IF shared_services_vars.keys = <<>> THEN EmptyDict
    ELSE LET n == Len(shared_services_vars.keys)
             k == shared_services_vars.keys[n]
             rest == [keys |-> SubSeq(shared_services_vars.keys, 1, n - 1),
                      val |-> shared_services_vars.val]
         IN  DictPut(var_nms_all(rest), nms_key_mapping(k), shared_services_vars.val[k])

\* lines 177-187
default_inputs_map(name, ms) ==
    LET shares == <<ms.ms_pcar, ms.ms_road, ms.ms_rail, ms.ms_cyc, ms.ms_walk>>
        dists == <<ms.dist_pcar, ms.dist_road, ms.dist_rail, ms.dist_cyc, ms.dist_walk>>
        cyc == <<ms.dist_cyc, ms.dist_cyc, ms.dist_cyc, ms.dist_cyc, ms.dist_walk>>
        cyc15 == RMul(ms.dist_cyc, Q(15, 10))
    IN  CASE name = "ICEcar" ->
               <<Q(5, 1), Q(13338, 100), Q(60, 1), Q(45, 10), Q(55, 1)>> \o shares \o dists
          [] name = "ICEmoped" ->
               <<Q(5, 1), Q(37, 1), Q(60, 1), Q(45, 10), Q(31, 1)>> \o shares \o dists
          [] name = "bike" -> <<Q(4, 1), Q(58, 1)>> \o shares \o cyc
          [] name = "ecar" -> <<Q(5, 1), Q(17, 100), Q(81, 1)>> \o shares \o dists
          [] name = "ebike" ->
               <<Q(4, 1), Q(103, 10000), Q(71, 1)>> \o shares
                  \o <<cyc15, cyc15, cyc15, ms.dist_cyc, ms.dist_walk>>
          [] name = "emoped" -> <<Q(5, 1), Q(33, 1000), Q(59, 1)>> \o shares \o dists
          [] name = "escooter" -> <<Q(5, 1), Q(16, 1000), Q(100, 1)>> \o shares \o cyc
          [] name = "other" -> <<Zero, Zero, Zero, Zero, Zero>> \o shares \o dists
          [] name = "eother" -> <<Zero, Zero, Zero>> \o shares \o dists
          [] OTHER -> <<>>

\* position of a name in lst_var_nms (0-based), -1 when absent (lines 206-213)
var_to_lst_idx_map(var_name) ==
    IF \E i \in DOMAIN lst_var_nms : lst_var_nms[i] = var_name
    THEN (CHOOSE i \in DOMAIN lst_var_nms : lst_var_nms[i] = var_name) - 1
    ELSE 0 - 1

\* lines 192-245: strip the names, then write the defaults of this column
nms_update_defaults(name, df, ms) ==
    LET default_values == default_inputs_map(name, ms)
        stripped == [i \in DOMAIN df |-> [df[i] EXCEPT !.variable = strip(@)]]
    IN  IF default_values = <<>> THEN stripped
        ELSE IF name = "escooter"
        THEN [i \in DOMAIN stripped |->
                LET lst_idx == var_to_lst_idx_map(stripped[i].variable)
                IN  IF lst_idx = 0
                    THEN [stripped[i] EXCEPT !.defaultValue = default_values[1]]
                    ELSE IF lst_idx >= 4
                    THEN [stripped[i] EXCEPT !.defaultValue = default_values[lst_idx - 2]]
                    ELSE stripped[i]]
        ELSE [i \in DOMAIN stripped |->
                IF i <= Len(default_values)
                THEN [stripped[i] EXCEPT !.defaultValue = default_values[i]]
                ELSE stripped[i]]

\* lines 247-249: the defaults replace the inputs when the inputs sum to 0
nms_use_defaults(df) ==
    IF IsZero(SumSeq([i \in DOMAIN df |-> df[i].userInput]))
    THEN [i \in DOMAIN df |-> [df[i] EXCEPT !.userInput = df[i].defaultValue]]
    ELSE df

\* df_template.merge(df_new, on="variable", how="left"): every template row,
\* once per matching row of df_new, or once with NaN when none matches
merge_template(template, df_new) ==
    Flatten([t \in DOMAIN template |->
        LET hits == SelectSeq(df_new, LAMBDA r : r.variable = template[t])
        IN  IF hits = <<>> THEN <<[variable |-> template[t], value |-> NaN]>>
            ELSE [j \in DOMAIN hits |-> [variable |-> template[t], value |-> hits[j].userInput]]])

\* lines 191-256 for one column
var_nms_inputs(name, df, ms) ==
    merge_template(lst_var_nms, nms_use_defaults(nms_update_defaults(name, df, ms)))

\* df.merge(right, on="variable", how="left") adding the column col
merge_column(rows, col, right) ==
    Flatten([i \in DOMAIN rows |->
        LET hits == SelectSeq(right, LAMBDA r : r.variable = rows[i].variable)
        IN  [j \in DOMAIN hits |->
                [variable |-> rows[i].variable,
                 v |-> [c \in DOMAIN rows[i].v \cup {col} |->
                          IF c = col THEN hits[j].value ELSE rows[i].v[c]]]]])

\* lines 258-265: join the columns one after the other onto the template
RECURSIVE combine_columns(_, _, _)
combine_columns(template, inputs, k) ==
    IF k = 0
    THEN [t \in DOMAIN template |-> [variable |-> template[t], v |-> <<>>]]
    ELSE merge_column(combine_columns(template, inputs, k - 1),
                      inputs.keys[k], inputs.val[inputs.keys[k]])

\* a column list without duplicates, first occurrence kept
RECURSIVE Dedup(_)
Dedup(s) ==
    IF s = <<>> THEN <<>>
    ELSE LET n == Len(s)
             front == Dedup(SubSeq(s, 1, n - 1))
         IN  IF s[n] \in Range(front) THEN front ELSE Append(front, s[n])

_prepare_nms_variables(shared_modes, shared_services_vars, modal_split) ==
    LET all == var_nms_all(shared_services_vars)
    IN  IF \E k \in Range(all.keys) : all.val[k] = <<>>
        THEN [err |-> "KeyError", df |-> <<>>]
        ELSE
        LET inputs == [keys |-> all.keys,
                       val |-> [k \in Range(all.keys) |->
                                  var_nms_inputs(k, all.val[k], modal_split)]]
            joined == combine_columns(lst_var_nms, inputs, Len(inputs.keys))
            numbers == numbers_nms(shared_modes)
            \* lines 280-290: the vehicle row, missing columns at 0
            numbers_cols == Dedup(numbers.keys \o expected_columns)
            \* line 308: concat puts the columns of the vehicle row first
            cols == Dedup(numbers_cols \o inputs.keys)
            colset == Range(cols)
            vehicles == [variable |-> "Number of vehicles",
                         v |-> [c \in colset |->
                                  IF DictHas(numbers, c) THEN numbers.val[c]
                                  ELSE Zero]]
            body == [i \in DOMAIN joined |->
                       [variable |-> joined[i].variable,
                        v |-> [c \in colset |->
                                 IF c \in DOMAIN joined[i].v
                                 THEN fillna(joined[i].v[c]) ELSE Zero]]]
        IN  [err |-> "none", df |-> [cols |-> cols, rows |-> <<vehicles>> \o body]]

(***************************************************************************)
(* Reference data (data_loader.py).  The CSV files hold one row per model  *)
(* year, newest first, so that row k is the year max_year - k; the values  *)
(* below are representative of them.                                       *)
(***************************************************************************)
MaxYear == 2023

NumYears == 12

\* the RangeIndex of car_co2 and air_emission
year_index_range == 0 .. (NumYears - 1)

\* get_year_list().max()
max_year == MaxYear

\* the country columns of the CO2 file in the order of the file:
\* car_co2.columns.tolist()[1:-1]
country_columns == <<"Austria", "Belgium", "Greece">>

\* get_country_list()
country_list == Range(country_columns)

\* lines 236-239: the intensities listed in the code, one per country column
elec_co2 ==
    <<96, 145, 422, 133, 589, 400, 103, 658, 66, 68, 366, 416, 180, 310, 252,
      86, 180, 52, 347, 321, 666, 173, 247, 115, 208, 205, 7, 251>>

\* lines 243-246, dict(zip(country_list, elec_co2)): the i-th country column
\* gets the i-th intensity
elec_co2_country(country) ==
    Q(elec_co2[CHOOSE i \in DOMAIN country_columns : country_columns[i] = country], 1)

\* the rows of the ACEA file: average age and fuel shares (in %)
car_acea ==
    [Austria |->
        [averageAge |-> Q(7, 2),
         fuelDistribution |-> [petrol |-> Q(40, 1), diesel |-> Q(50, 1),
                               ev |-> Q(8, 1), other |-> Q(2, 1)]],
     Belgium |->
        [averageAge |-> Q(2, 1),
         fuelDistribution |-> [petrol |-> Q(50, 1), diesel |-> Q(40, 1),
                               ev |-> Q(10, 1), other |-> Zero]],
     Greece |->
        [averageAge |-> Q(17, 1),
         fuelDistribution |-> [petrol |-> Q(90, 1), diesel |-> Q(8, 1),
                               ev |-> Q(1, 1), other |-> Q(1, 1)]]]

\* lines 317-371: what get_country_data returns for a country of the list
country_table ==
    [country \in country_list |->
        [averageAge |-> car_acea[country].averageAge,
         fuelDistribution |-> car_acea[country].fuelDistribution,
         electricityCo2 |-> elec_co2_country(country)]]

\* data_loader.car_co2.loc[year_index, country]: new-car CO2 (g/km)
car_co2(year_index, country) ==
    IF country = "Austria" THEN Q(50 + 50 * year_index, 1)
    ELSE Q(100 * year_index, 1)

\* data_loader.air_emission.loc[year_index, column]: emission limits (g/km)
air_emission(year_index, column) ==
    CASE column = "petrol_nox" -> Q(60, 1000)
      [] column = "diesel_nox" -> Q(80 + 20 * year_index, 1000)
      [] column = "petrol_pm" -> Q(5, 1000)
      [] column = "diesel_pm" -> Q(5 + year_index, 1000)

\* DataLoader.get_country_data: ValueError for a country outside the list
get_country_data(country) ==
    IF country \in country_list
    THEN [err |-> "none", data |-> country_table[country]]
    ELSE [err |-> "ValueError", data |-> <<>>]

(***************************************************************************)
(* _prepare_trad_variables                                                 *)
(***************************************************************************)
\* lines 353-355: np.where(userInput == 0, defaultValue, userInput)
where_zero_default(df) ==
    [i \in DOMAIN df |->
        [df[i] EXCEPT !.variable = strip(@),
                      !.userInput = IF IsZero(df[i].userInput)
                                    THEN df[i].defaultValue ELSE df[i].userInput]]

_prepare_trad_variables(trad_vars) ==
    LET \* lines 343-346: the modes of TRAD_TYPES the map has, in that order
        present == SelectSeq(TRAD_TYPES, LAMBDA m : DictHas(trad_vars, m))
    IN  IF \E m \in Range(present) : trad_vars.val[m] = <<>>
        THEN [err |-> "KeyError", df |-> <<>>]
        ELSE
        LET inputs == [keys |-> present,
                       val |-> [m \in Range(present) |->
                                  merge_template(lst_var_trad,
                                                 where_zero_default(trad_vars.val[m]))]]
            joined == combine_columns(lst_var_trad, inputs, Len(present))
        IN  IF Len(present) + 1 <= 1
            THEN [err |-> "ValueError", df |-> <<>>]
            ELSE IF Len(joined) # 5
            THEN [err |-> "ValueError", df |-> <<>>]
            ELSE [err |-> "none",
                  df |-> [cols |-> present,
                          rows |-> [i \in DOMAIN joined |->
                                      [variable |-> joined[i].variable,
                                       v |-> [c \in Range(present) |->
                                                fillna(joined[i].v[c])]]]]]

(***************************************************************************)
(* _prepare_general_variables, for tables of at least six rows             *)
(***************************************************************************)
_prepare_general_variables(general_vars, country_data, car_age, fuel_dist) ==
    IF general_vars = <<>> THEN [err |-> "KeyError", df |-> <<>>]
    ELSE
    LET \* lines 415-417: the inputs are resolved first
        resolved == where_zero_default(general_vars)
        \* lines 420-424: the country values go to defaultValue afterwards
        overridden ==
            [i \in DOMAIN resolved |->
                [resolved[i] EXCEPT !.defaultValue =
                    CASE i = 1 -> country_data.electricityCo2
                      [] i = 3 -> car_age
                      [] i = 4 -> fuel_dist.petrol
                      [] i = 5 -> fuel_dist.diesel
                      [] i = 6 -> fuel_dist.ev
                      [] OTHER -> @]]
    IN  \* lines 426-427: defaultValue is dropped, userInput becomes "general"
        [err |-> "none",
         df |-> [i \in DOMAIN overridden |->
                   [variable |-> overridden[i].variable,
                    general |-> fillna(overridden[i].userInput)]]]

(***************************************************************************)
(* _update_defaults_from_dashboard                                         *)
(***************************************************************************)
\* the NEDC correction for the years before 2020 only
nedc_wltp_factor_before_2020(car_year) ==
    IF car_year < 2020 THEN Q(14, 10) ELSE Q(114, 100)

\* lines 457-460
nedc_wltp_factor(car_year) ==
    IF car_year <= 2020 THEN Q(14, 10) ELSE Q(114, 100)

_update_defaults_from_dashboard(trad, country, car_year, fuel_dist) ==
    LET year_index == max_year - car_year
    IN  IF year_index \notin year_index_range
        THEN [err |-> "KeyError", df |-> trad]
        ELSE
        LET default_co2_car == RMul(car_co2(year_index, country), nedc_wltp_factor(car_year))
            weighted(p, d) ==
                RMul(RAdd(RMul(RDiv(fuel_dist.petrol, Q(100, 1)), air_emission(year_index, p)),
                          RMul(RDiv(fuel_dist.diesel, Q(100, 1)), air_emission(year_index, d))),
                     Q(1000, 1))
            default_nox_car == weighted("petrol_nox", "diesel_nox")
            default_pm_car == weighted("petrol_pm", "diesel_pm")
        IN  IF "private_car" \in Range(trad.cols)
            THEN [err |-> "none",
                  df |-> [trad EXCEPT
                            !.rows[1].v["private_car"] = default_co2_car,
                            !.rows[2].v["private_car"] = default_nox_car,
                            !.rows[3].v["private_car"] = default_pm_car]]
            ELSE [err |-> "none", df |-> trad]

(***************************************************************************)
(* _format_results                                                         *)
(***************************************************************************)
\* lines 1024-1029: the regular expression searched in the column names
filter_pattern(mode) ==
    CASE mode = "Car" -> "car"
      [] mode = "Bike" -> "bike"
      [] mode = "Moped" -> "moped"
      [] mode = "e-Scooter" -> "escooter"
      [] mode = "Other" -> "other"

\* re.match(pattern, col): the pattern found at the start of the name only
regex_match(pattern, col) ==
    CASE pattern = "car" -> col \in {"cargo"}
      [] pattern = "bike" -> col \in {"bike"}
      [] pattern = "moped" -> FALSE
      [] pattern = "escooter" -> col \in {"escooter"}
      [] pattern = "other" -> col \in {"other"}

\* re.search(pattern, col) on the column names of this model
regex_search(pattern, col) ==
    CASE pattern = "car" -> col \in {"ICEcar", "ecar", "cargo"}
      [] pattern = "bike" -> col \in {"bike", "ebike"}
      [] pattern = "moped" -> col \in {"ICEmoped", "emoped"}
      [] pattern = "escooter" -> col \in {"escooter"}
      [] pattern = "other" -> col \in {"other", "eother"}

\* line 1012
expected_rows ==
    <<"avg_co2_TTW_trad", "avg_co2_WTT_trad", "avg_co2_TTW_nms", "avg_co2_WTT_nms">>

\* DataFrame.filter(regex=...).sum(): the sum of one row over the matching
\* columns, added in the order of the columns
sum_filtered(row, cols, pattern) ==
    SumSeq([i \in DOMAIN cols |->
              IF regex_search(pattern, cols[i]) THEN fillna(row[cols[i]]) ELSE Zero])

\* df_results.filter(regex=filter_pattern, axis=1), line 1031: the labels of
\* the columns that match
filter_regex(columns, pattern) == {c \in columns : regex_search(pattern, c)}

\* sum_co2_filtered.sum(axis=1), line 1046, for one row: the sum of its cells
\* in the given columns, which in exact arithmetic is the same in every order
RECURSIVE sum_axis1(_, _)
sum_axis1(row, columns) ==
    IF columns = {} THEN Zero
    ELSE LET c == CHOOSE label \in columns : TRUE
         IN  RAdd(fillna(row[c]), sum_axis1(row, columns \ {c}))

\* per_year with a year of 365 days
per_year_365(per_day) == RMul(per_day, Q(365, 1000))

\* lines 1090-1100: kg/day -> ton/year -> ton/year per 1000 inhabitants.
\* x / 1000 * 365.25 is the rational x * (36525 / 100000), and
\* y / inhabitants * 1000 the rational y * (1000 / inhabitants)
per_year(per_day) == RMul(per_day, Q(36525, 100000))

per_year_per_1000(yearly, inhabitants) ==
    RMul(yearly, Q(1000, inhabitants))

totals_block(per_day, inhabitants) ==
    [kgPerDay |-> per_day,
     tonPerYear |-> per_year(per_day),
     tonPerYearPer1000 |-> per_year_per_1000(per_year(per_day), inhabitants)]

air_block(per_day, inhabitants) ==
    [gPerDay |-> per_day,
     kgPerYear |-> per_year(per_day),
     kgPerYearPer1000 |-> per_year_per_1000(per_year(per_day), inhabitants)]

\* the sum of a table over the matching columns of all its rows
table_sum(df, pattern) ==
    SumSeq([i \in DOMAIN df.rows |-> sum_filtered(df.rows[i], df.cols, pattern)])

\* per_mode_entry with the life-cycle part left out of the total
per_mode_entry_use_phase(mode, df_results, avg_co2_lca, avg_nox, avg_pm) ==
    LET entry(sum_co2, lca_total) ==
            [ttw |-> RAdd(sum_co2[1], sum_co2[3]),
             wtt |-> RAdd(sum_co2[2], sum_co2[4]),
             lca |-> lca_total,
             total |-> RAdd(RAdd(sum_co2[1], sum_co2[3]), RAdd(sum_co2[2], sum_co2[4])),
             nox |-> table_sum(avg_nox, filter_pattern(mode)),
             pm |-> table_sum(avg_pm, filter_pattern(mode))]
    IN  entry([i \in 1 .. 4 |->
                 sum_axis1(df_results.rows[i].v,
                           filter_regex(df_results.cols, filter_pattern(mode)))],
              table_sum(avg_co2_lca, filter_pattern(mode)))

\* lines 1018-1080: sum_co2 is the sum of each result row over the columns of
\* the mode, ttw = TTW_trad + TTW_nms, wtt = WTT_trad + WTT_nms
per_mode_entry(mode, df_results, avg_co2_lca, avg_nox, avg_pm) ==
    LET entry(sum_co2, lca_total) ==
            [ttw |-> RAdd(sum_co2[1], sum_co2[3]),
             wtt |-> RAdd(sum_co2[2], sum_co2[4]),
             lca |-> lca_total,
             total |-> RAdd(RAdd(RAdd(sum_co2[1], sum_co2[3]),
                                 RAdd(sum_co2[2], sum_co2[4])), lca_total),
             nox |-> table_sum(avg_nox, filter_pattern(mode)),
             pm |-> table_sum(avg_pm, filter_pattern(mode))]
    IN  entry([i \in 1 .. 4 |->
                 sum_axis1(df_results.rows[i].v,
                           filter_regex(df_results.cols, filter_pattern(mode)))],
              table_sum(avg_co2_lca, filter_pattern(mode)))

\* lines 1085-1149: the totals over the five modes and their conversions
totals_of(per_mode, inhabitants) ==
    LET over(f) == SumSeq([i \in DOMAIN NMS_TYPES |-> per_mode[NMS_TYPES[i]][f]])
    IN  [co2 |-> [total |-> totals_block(over("total"), inhabitants),
                  tankToWheel |-> totals_block(over("ttw"), inhabitants),
                  wellToTank |-> totals_block(over("wtt"), inhabitants),
                  lifeCycle |-> totals_block(over("lca"), inhabitants)],
         airQuality |-> [nox |-> air_block(over("nox"), inhabitants),
                         pm |-> air_block(over("pm"), inhabitants)]]

\* _format_results returning the per-mode part alone when nobody lives there
_format_results_without_totals(df_results, avg_co2_lca, avg_nox, avg_pm, inhabitants) ==
    LET formatted(per_mode) ==
            IF inhabitants = 0
            THEN [err |-> "none", raised_in |-> "", result |-> [perMode |-> per_mode]]
            ELSE [err |-> "none", raised_in |-> "",
                  result |-> [perMode |-> per_mode,
                              totals |-> totals_of(per_mode, inhabitants)]]
    IN  IF Len(df_results.rows) # 4
           \/ \E i \in 1 .. 4 : df_results.rows[i].variable # expected_rows[i]
        THEN [err |-> "ValueError", raised_in |-> "_format_results", result |-> <<>>]
        ELSE formatted([m \in Range(NMS_TYPES) |->
                          per_mode_entry(m, df_results, avg_co2_lca, avg_nox, avg_pm)])

_format_results(df_results, avg_co2_lca, avg_nox, avg_pm, inhabitants) ==
    LET \* lines 1090-1109 divide Python floats: inhabitants = 0 raises
        formatted(per_mode) ==
            IF inhabitants = 0
            THEN [err |-> "ZeroDivisionError", raised_in |-> "_format_results",
                  result |-> <<>>]
            ELSE [err |-> "none", raised_in |-> "",
                  result |-> [perMode |-> per_mode,
                              totals |-> totals_of(per_mode, inhabitants)]]
    IN  \* lines 1008-1016
        IF Len(df_results.rows) # 4
        THEN [err |-> "ValueError", raised_in |-> "_format_results", result |-> <<>>]
        ELSE IF \E i \in 1 .. 4 : df_results.rows[i].variable # expected_rows[i]
        THEN [err |-> "ValueError", raised_in |-> "_format_results", result |-> <<>>]
        ELSE formatted([m \in Range(NMS_TYPES) |->
                          per_mode_entry(m, df_results, avg_co2_lca, avg_nox, avg_pm)])

(***************************************************************************)
(* _perform_calculations                                                   *)
(***************************************************************************)
\* df.iloc[i] of a table: the values of its row at 0-based position i
iloc(df, i) == df.rows[i + 1].v

\* the trips of one vehicle taken for the trips of the fleet
total_trips_of_one_vehicle(nms) ==
    [c \in Range(nms.cols) |-> iloc(nms, 1)[c]]

\* lines 520-555: total trips, replaced trips and decreased distance
total_trips(nms) ==
    [c \in Range(nms.cols) |-> RMul(iloc(nms, 0)[c], iloc(nms, 1)[c])]

replaced_trip(nms) ==
    LET trips == total_trips(nms)
    IN  [m \in 1 .. 5 |->
           [c \in Range(nms.cols) |->
              RMul(trips[c], RDiv(iloc(nms, 6 + m)[c], Q(100, 1)))]]

decreased_distance(nms, replaced) ==
    [m \in 1 .. 5 |->
       [c \in Range(nms.cols) |->
          RNeg(RMul(replaced[m][c], iloc(nms, 11 + m)[c]))]]

\* lines 633-661
total_km_travelled(nms, replaced) ==
    [c \in Range(nms.cols) |->
       SumSeq([m \in 1 .. 5 |-> RMul(replaced[m][c], iloc(nms, 11 + m)[c])])]

\* lines 894-908 and 936-966: each decreased-distance row times the factor of
\* the traditional-mode column at the same position, rows beyond the last
\* column left as they are
scale_by_trad(decreased, trad, r) ==
    [m \in 1 .. 5 |->
       IF m <= Len(trad.cols)
       THEN [c \in DOMAIN decreased[m] |->
               RMul(decreased[m][c], RDiv(iloc(trad, r)[trad.cols[m]], Q(1000, 1)))]
       ELSE decreased[m]]

\* lines 910-933 and 945-980: the row of the shared vehicles themselves,
\* filled for the expected columns only
nms_row(nms, km, r) ==
    [c \in Range(nms.cols) |->
       IF c \in Range(expected_columns)
       THEN RDiv(RMul(iloc(nms, r)[c], km[c]), Q(1000, 1))
       ELSE NaN]

\* lines 567-573 and 592: the CO2 factor of the traditional mode at position
\* i of the table; the third is the rail factor, a position beyond the last
\* column has factor 0
co2_factors(trad, gen_val, i) ==
    IF i = 3 THEN RMul(gen_val, iloc(trad, 3)[trad.cols[3]])
    ELSE IF i <= Len(trad.cols) THEN iloc(trad, 0)[trad.cols[i]]
    ELSE Zero

\* lines 666-673
ev_emission_factor(nms, gen_val) ==
    [c \in Range(nms.cols) |-> RMul(gen_val, iloc(nms, 5)[c])]

\* lines 675-712: total km times the tank-to-wheel factor of the column
ttw_ice_co2(nms, km) ==
    [c \in Range(nms.cols) |-> RDiv(RMul(km[c], iloc(nms, 2)[c]), Q(1000, 1))]

\* lines 717-808: wtt_ev_co2 where it is not 0, wtt_ice_co2 elsewhere
wtt_co2(nms, km, gen_val, wtt_multiplier) ==
    LET wtt_ice_co2 == [c \in Range(nms.cols) |->
                          RMul(ttw_ice_co2(nms, km)[c], wtt_multiplier)]
        wtt_ev_co2 == [c \in Range(nms.cols) |->
                         RDiv(RMul(km[c], ev_emission_factor(nms, gen_val)[c]),
                              Q(1000, 1))]
    IN  [c \in Range(nms.cols) |->
           IF IsZero(wtt_ev_co2[c]) THEN wtt_ice_co2[c] ELSE wtt_ev_co2[c]]

\* line 811, list(set(names)): a list of the distinct names in the order of
\* the slots of the interpreter's hash table.  The slots follow the hashes of
\* the strings, which differ from process to process (the hash seed is random
\* unless PYTHONHASHSEED is set): the lists it can return are the distinct
\* names in every order
list_of_set(names) ==
    {listed \in [1 .. Cardinality(names) -> names] : Range(listed) = names}

\* line 498, df_var_nms.columns.tolist(): the columns of the vehicle row
\* with its "variable" (lines 280-308), then the other columns
columns_tolist(nms) ==
    LET n == IF Len(nms.cols) < Len(expected_columns) THEN Len(nms.cols)
             ELSE Len(expected_columns)
    IN  SubSeq(nms.cols, 1, n) \o <<"variable">> \o SubSeq(nms.cols, n + 1, Len(nms.cols))

\* the intermediate tables of a calculation that stopped before building them
NoCalc == <<>>

\* df_calc keeps the rows the code adds to df_calc and the four tables handed
\* to _format_results.  The columns of df_results are a list_of_set, in an
\* order that no run fixes: df_results keeps them as the set of its column
\* labels, and its cells are read by label
_perform_calculations(nms, trad, gen, inhabitants) ==
    LET C == Range(nms.cols)
        replaced == replaced_trip(nms)
        decreased == decreased_distance(nms, replaced)
        failed(kind) == [err |-> kind, raised_in |-> "_perform_calculations",
                         result |-> <<>>, df_calc |-> NoCalc]
        formatted(calc) ==
            LET r == _format_results(calc.df_results, calc.avg_co2_lca, calc.avg_nox,
                                     calc.avg_pm, inhabitants)
            IN  [err |-> r.err, raised_in |-> r.raised_in, result |-> r.result,
                 df_calc |-> calc]
    IN  \* lines 564-565
        IF Len(trad.rows) <= 3 \/ Len(trad.cols) + 1 <= 3
        THEN failed("ValueError")
        ELSE
        LET gen_val == gen[1].general
            co2_saved == [m \in 1 .. 5 |->
                            [c \in C |-> RDiv(RMul(decreased[m][c],
                                                   co2_factors(trad, gen_val, m)),
                                              Q(1000, 1))]]
            wtt_factor == gen[2].general
            wtt_denominator == RSub(One, RDiv(wtt_factor, Q(100, 1)))
        IN  \* line 604
            IF IsZero(wtt_denominator)
            THEN failed("ZeroDivisionError")
            ELSE
            LET wtt_multiplier == RSub(RDiv(One, wtt_denominator), One)
                co2_saved_WTT == [m \in 1 .. 2 |->
                                    [c \in C |-> RMul(co2_saved[m][c], wtt_multiplier)]]
                km == total_km_travelled(nms, replaced)
                \* lines 856-871
                avg_co2_TTW_trad == [c \in C |-> RAdd(co2_saved[1][c], co2_saved[2][c])]
                avg_co2_WTT_trad ==
                    [c \in C |->
                       SumSeq(<<co2_saved[3][c], co2_saved[4][c], co2_saved[5][c],
                                co2_saved_WTT[1][c], co2_saved_WTT[2][c]>>)]
                \* lines 811-813
                column_names == columns_tolist(nms)
                listed == Range(column_names \o expected_columns)
                all_columns == IF "variable" \notin listed
                               THEN {"variable"} \cup listed ELSE listed
            IN  formatted(
                  [total_trips |-> total_trips(nms),
                   replaced_trip |-> replaced,
                   decreased_distance |-> decreased,
                   total_km_travelled |-> km,
                   df_results |->
                     [cols |-> all_columns,
                      rows |-> <<[variable |-> "avg_co2_TTW_trad", v |-> avg_co2_TTW_trad],
                                 [variable |-> "avg_co2_WTT_trad", v |-> avg_co2_WTT_trad],
                                 [variable |-> "avg_co2_TTW_nms",
                                  v |-> ttw_ice_co2(nms, km)],
                                 [variable |-> "avg_co2_WTT_nms",
                                  v |-> wtt_co2(nms, km, gen_val, wtt_multiplier)]>>],
                   avg_co2_lca |->
                     [cols |-> nms.cols,
                      rows |-> Append(scale_by_trad(decreased, trad, 4), nms_row(nms, km, 6))],
                   avg_nox |->
                     [cols |-> nms.cols,
                      rows |-> Append(scale_by_trad(decreased, trad, 1), nms_row(nms, km, 3))],
                   avg_pm |->
                     [cols |-> nms.cols,
                      rows |-> Append(scale_by_trad(decreased, trad, 2), nms_row(nms, km, 4))]])

(***************************************************************************)
(* data_loader.py: the global data loader                                  *)
(***************************************************************************)
None == [kind |-> "None"]

\* what _load_all_data finds on disk: every file, or the first thing missing
FileStates ==
    {"readable", "data", "co2_emissions_new_cars_EU.csv", "acea_vehicle_data.csv",
     "air_emission_limits.csv"}

\* DataLoader(), lines 115-205: the n-th reading of the files; the instance
\* holds the reference tables above, the error names what was missing
DataLoader(files, n) ==
    IF files = "readable"
    THEN [kind |-> "DataLoader", id |-> n]
    ELSE [kind |-> "FileNotFoundError", missing |-> files, id |-> n]

\* get_data_loader reading the files again after a failure
get_data_loader_without_error_cache(loader, error, files, n) ==
    IF loader # None
    THEN [raised |-> None, returned |-> loader, loader |-> loader, error |-> error, loads |-> n]
    ELSE LET made == DataLoader(files, n + 1)
         IN  IF made.kind = "DataLoader"
             THEN [raised |-> None, returned |-> made, loader |-> made, error |-> error,
                   loads |-> n + 1]
             ELSE [raised |-> made, returned |-> None, loader |-> loader, error |-> error,
                   loads |-> n + 1]

\* get_data_loader, lines 377-409, on the globals and the files on disk: what
\* it raises or returns, and the globals and the number of readings afterwards
get_data_loader(loader, error, files, n) ==
    IF error # None
    THEN [raised |-> error, returned |-> None, loader |-> loader, error |-> error, loads |-> n]
    ELSE IF loader # None
    THEN [raised |-> None, returned |-> loader, loader |-> loader, error |-> error, loads |-> n]
    ELSE LET made == DataLoader(files, n + 1)
         IN  IF made.kind = "DataLoader"
             THEN [raised |-> None, returned |-> made, loader |-> made, error |-> error,
                   loads |-> n + 1]
             ELSE [raised |-> made, returned |-> None, loader |-> loader, error |-> made,
                   loads |-> n + 1]

(***************************************************************************)
(* calculate_emissions                                                     *)
(***************************************************************************)
\* the tables of a call that failed before preparing them
NoTable == [cols |-> <<>>, rows |-> <<>>]

NoGeneral == <<>>

\* The outcome of a call: err is "none" or the type of the exception raised,
\* raised_in the function that raised it; the prepared tables are kept for
\* inspection (trad as _perform_calculations receives it), and so are the
\* intermediate tables of _perform_calculations; got is what get_data_loader
\* raises or returns.
calculate_emissions(country, inhabitants, modal_split, shared_modes, variables, got) ==
    LET failed(kind, where, n, t, g) ==
            [err |-> kind, raised_in |-> where, result |-> <<>>,
             nms |-> n, trad |-> t, gen |-> g, df_calc |-> NoCalc]
        \* lines 59-64: the result of _perform_calculations is returned as it is
        calculated(n, u, g, r) ==
            [err |-> r.err, raised_in |-> r.raised_in, result |-> r.result,
             nms |-> n, trad |-> u, gen |-> g, df_calc |-> r.df_calc]
        \* lines 54-62
        updated(n, t, g, u) ==
            IF u.err # "none"
            THEN failed(u.err, "_update_defaults_from_dashboard", n, t, g)
            ELSE calculated(n, u.df, g, _perform_calculations(n, u.df, g, inhabitants))
        \* lines 49-52: the three tables are prepared in this order
        prepared(n, t, g, car_year, fuel_dist) ==
            IF n.err # "none"
            THEN failed(n.err, "_prepare_nms_variables", NoTable, NoTable, NoGeneral)
            ELSE IF t.err # "none"
            THEN failed(t.err, "_prepare_trad_variables", n.df, NoTable, NoGeneral)
            ELSE IF g.err # "none"
            THEN failed(g.err, "_prepare_general_variables", n.df, t.df, NoGeneral)
            ELSE updated(n.df, t.df, g.df,
                         _update_defaults_from_dashboard(t.df, country, car_year, fuel_dist))
        \* lines 42-47
        looked_up(cd) ==
            IF cd.err # "none"
            THEN failed(cd.err, "get_country_data", NoTable, NoTable, NoGeneral)
            ELSE prepared(
                   _prepare_nms_variables(shared_modes, variables.sharedServices, modal_split),
                   _prepare_trad_variables(variables.traditionalModes),
                   _prepare_general_variables(variables.general, cd.data, cd.data.averageAge,
                                              cd.data.fuelDistribution),
                   round(RSub(Q(2024, 1), cd.data.averageAge)),
                   cd.data.fuelDistribution)
    IN  \* line 39: what get_data_loader raises is not caught
        IF got.raised # None
        THEN failed(got.raised.kind, "get_data_loader", NoTable, NoTable, NoGeneral)
        ELSE looked_up(get_country_data(country))

(***************************************************************************)
(* The route: default tables of calculate_emissions_endpoint               *)
(***************************************************************************)
lca_name == "Emission factor for life-cycle phases excluding use phase (gCO2/km)"

\* rows with userInput 0 from parallel lists of names and default values
DefaultRows(names, defaults) ==
    [i \in DOMAIN names |-> Row(names[i], Zero, defaults[i])]

Zeros(n) == [i \in 1 .. n |-> Zero]

\* the row names of the route's tables, as positions in lst_var_nms
ice_names == SelectSeqIdx(lst_var_nms, (1 .. 16) \ {5}, 1)

bike_names == SelectSeqIdx(lst_var_nms, {1} \cup (6 .. 16), 1)

ev_names == SelectSeqIdx(lst_var_nms, {1, 5} \cup (6 .. 16), 1)

escooter_names ==
    <<lst_var_nms[1], lst_var_nms[5], lst_var_nms[3], lst_var_nms[4]>>
        \o SelectSeqIdx(lst_var_nms, 6 .. 16, 1)

\* routes/calculations.py lines 80-103
default_trad_modes ==
    DictOf(<<
      <<"private_car",
        DefaultRows(<<lst_var_trad[1], lst_var_trad[2], lst_var_trad[3], lst_var_trad[5]>>,
                    <<Q(1186, 10), Q(69, 1), Q(45, 10), Q(55, 1)>>)>>,
      <<"pt_road",
        DefaultRows(<<lst_var_trad[1], lst_var_trad[2], lst_var_trad[3], lst_var_trad[5]>>,
                    <<Q(63, 1), Q(3067, 100), Q(67, 100), Q(20, 1)>>)>>,
      <<"pt_rail",
        DefaultRows(<<lst_var_trad[4], lst_var_trad[5]>>, <<Q(9, 100), Q(13, 1)>>)>>,
      <<"cycling", DefaultRows(<<lst_var_trad[5]>>, <<Q(17, 1)>>)>>,
      <<"walking", DefaultRows(<<lst_var_trad[5]>>, <<Zero>>)>> >>)

\* routes/calculations.py lines 145-291
default_shared_services ==
    DictOf(<<
      <<"var_nms_ICEcar", DefaultRows(ice_names, Zeros(15))>>,
      <<"var_nms_ICEmoped",
        DefaultRows(ice_names, [Zeros(15) EXCEPT ![5] = Q(1, 1000)])>>,
      <<"var_nms_bike", DefaultRows(bike_names, Zeros(12))>>,
      <<"var_nms_ev", DefaultRows(ev_names, Zeros(13))>>,
      <<"var_nms_ebike", DefaultRows(ev_names, Zeros(13))>>,
      <<"var_nms_emoped",
        DefaultRows(lst_var_nms,
                    [Zeros(16) EXCEPT ![1] = Q(1, 10), ![3] = Q(1, 10),
                                      ![4] = Q(1, 10), ![5] = Q(1, 10)])>>,
      <<"var_nms_escooter",
        DefaultRows(escooter_names, [Zeros(15) EXCEPT ![1] = Q(2, 10), ![2] = Q(2, 10)])>>,
      <<"var_nms_other", DefaultRows(ice_names, Zeros(15))>>,
      <<"var_nms_eother", DefaultRows(ev_names, Zeros(13))>> >>)

\* routes/variables.py lines 46-53: the general table the API hands out
default_general ==
    DefaultRows(
      <<"Average CO2 emission intensity for electricity generation (gCO2/kWh)",
        "Well-to-Tank emissions fraction of Well-to-Wheel emissions ICE cars (%)",
        "Average age of the car fleet (years)",
        "Percentage of petrol cars in the current fleet (%)",
        "Percentage of diesel cars in the current fleet (%)",
        "Percentage of electric cars in the current fleet (%)">>,
      <<Q(96, 1), Q(20, 1), Q(93, 10), Q(422, 10), Q(499, 10), Q(78, 10)>>)

(***************************************************************************)
(* calculate_emissions_endpoint: request conversion and error mapping      *)
(***************************************************************************)
\* lines 72-77: None for activeTransport and for every unknown key
trad_modes_mapping(frontend_key) ==
    CASE frontend_key = "privateCar" -> "private_car"
      [] frontend_key = "ptRoad" -> "pt_road"
      [] frontend_key = "ptRail" -> "pt_rail"
      [] OTHER -> "None"

\* convert_traditional_modes with walking built from the first row as well
RECURSIVE convert_traditional_modes_first_row(_, _)
convert_traditional_modes_first_row(req, k) ==
    IF k = 0 THEN EmptyDict
    ELSE LET prev == convert_traditional_modes_first_row(req, k - 1)
             frontend_key == req.keys[k]
             vars_list == req.val[frontend_key]
             backend_key == trad_modes_mapping(frontend_key)
         IN  IF vars_list = <<>> THEN prev
             ELSE IF backend_key = "None"
             THEN IF frontend_key = "activeTransport"
                  THEN DictPut(DictPut(prev, "cycling", <<vars_list[1]>>),
                               "walking", <<vars_list[1]>>)
                  ELSE prev
             ELSE DictPut(prev, backend_key, vars_list)

\* lines 113-136, over the first k items of the request map
RECURSIVE convert_traditional_modes(_, _)
convert_traditional_modes(req, k) ==
    IF k = 0 THEN EmptyDict
    ELSE LET prev == convert_traditional_modes(req, k - 1)
             frontend_key == req.keys[k]
             vars_list == req.val[frontend_key]
             backend_key == trad_modes_mapping(frontend_key)
         IN  IF vars_list = <<>> THEN prev
             ELSE IF backend_key = "None"
             THEN IF frontend_key = "activeTransport"
                  THEN IF Len(vars_list) >= 2
                       THEN DictPut(DictPut(prev, "cycling", <<vars_list[1]>>),
                                    "walking", <<vars_list[2]>>)
                       ELSE DictPut(DictPut(prev, "cycling", <<vars_list[1]>>),
                                    "walking", <<vars_list[1]>>)
                  ELSE prev
             ELSE DictPut(prev, backend_key, vars_list)

\* lines 139-141 and 319-321: the defaults for the keys still missing
RECURSIVE fill_missing(_, _, _)
fill_missing(d, defaults, k) ==
    IF k = 0 THEN d
    ELSE LET prev == fill_missing(d, defaults, k - 1)
             key == defaults.keys[k]
         IN  IF ~DictHas(prev, key) \/ prev.val[key] = <<>>
             THEN DictPut(prev, key, defaults.val[key])
             ELSE prev

\* lines 106-141
traditional_modes_dict(req) ==
    IF req.keys = <<>> THEN default_trad_modes
    ELSE fill_missing(convert_traditional_modes(req, Len(req.keys)), default_trad_modes, 5)

\* lines 295-305
shared_services_key_map(frontend_key) ==
    CASE frontend_key = "ice_car" -> "var_nms_ICEcar"
      [] frontend_key = "ice_moped" -> "var_nms_ICEmoped"
      [] frontend_key = "bike" -> "var_nms_bike"
      [] frontend_key = "e_car" -> "var_nms_ev"
      [] frontend_key = "e_bike" -> "var_nms_ebike"
      [] frontend_key = "e_moped" -> "var_nms_emoped"
      [] frontend_key = "e_scooter" -> "var_nms_escooter"
      [] frontend_key = "other" -> "var_nms_other"
      [] frontend_key = "e_other" -> "var_nms_eother"
      [] OTHER -> frontend_key

\* lines 314-316
RECURSIVE convert_shared_services(_, _)
convert_shared_services(req, k) ==
    IF k = 0 THEN EmptyDict
    ELSE DictPut(convert_shared_services(req, k - 1),
                 shared_services_key_map(req.keys[k]), req.val[req.keys[k]])

\* lines 319-321: here an empty list counts as present
RECURSIVE fill_missing_services(_, _, _)
fill_missing_services(d, defaults, k) ==
    IF k = 0 THEN d
    ELSE LET prev == fill_missing_services(d, defaults, k - 1)
             key == defaults.keys[k]
         IN  IF ~DictHas(prev, key) THEN DictPut(prev, key, defaults.val[key]) ELSE prev

\* lines 308-321
shared_services_dict(req) ==
    IF req.keys = <<>> THEN default_shared_services
    ELSE fill_missing_services(convert_shared_services(req, Len(req.keys)),
                               default_shared_services, 9)

\* lines 323-327
variables_dict(request) ==
    [general |-> request.variables.general,
     traditionalModes |-> traditional_modes_dict(request.variables.traditionalModes),
     sharedServices |-> shared_services_dict(request.variables.sharedServices)]

\* lines 345-375: 200 with the result, 400 for a ValueError, 500 otherwise
NoBody == <<>>

\* http_response answering 200 with whatever the calculation left
http_response_always_ok(r) ==
    [status_code |-> 200, detail |-> <<>>, body |-> r.result]

http_response(r) ==
    IF r.err = "none"
    THEN [status_code |-> 200, detail |-> <<>>, body |-> r.result]
    ELSE IF r.err = "ValueError"
    THEN [status_code |-> 400,
          detail |-> <<"Invalid input data. Please check your input values.">>,
          body |-> NoBody]
    ELSE [status_code |-> 500,
          detail |-> <<"An error occurred during calculation: ", r.err>>,
          body |-> NoBody]

(***************************************************************************)
(* The calls the model makes                                               *)
(***************************************************************************)
MaxFleets == 2

DictRemove(d, gone) ==
    LET keys == SelectSeq(d.keys, LAMBDA k : k \notin gone)
    IN  [keys |-> keys, val |-> [k \in Range(keys) |-> d.val[k]]]

\* rows with the user inputs of edits (a function position -> value) filled in
WithInputs(rows, edits) ==
    [i \in DOMAIN rows |->
        IF i \in DOMAIN edits THEN [rows[i] EXCEPT !.userInput = edits[i]] ELSE rows[i]]

base_modal_split ==
    [ms_pcar |-> Q(40, 1), dist_pcar |-> Q(10, 1),
     ms_road |-> Q(20, 1), dist_road |-> Q(5, 1),
     ms_rail |-> Q(20, 1), dist_rail |-> Q(10, 1),
     ms_cyc |-> Q(10, 1), dist_cyc |-> Q(5, 1),
     ms_walk |-> Q(10, 1), dist_walk |-> Q(10, 1)]

Fleet(mode, n, p) ==
    [mode |-> mode, numVehicles |-> Q(n, 1), percentageElectric |-> Q(p, 1)]

FleetEntries ==
    {Fleet("Car", 80, 25), Fleet("Car", 40, 0), Fleet("Bike", 50, 100),
     Fleet("e-Scooter", 40, 25), Fleet("Moped", 80, 50), Fleet("Other", 20, 10),
     Fleet("Bike", 0, 50)}

FleetLists == UNION {[1 .. n -> FleetEntries] : n \in 0 .. MaxFleets}

base_fleets == <<Fleet("Car", 80, 25), Fleet("e-Scooter", 40, 25)>>

base_general == WithInputs(default_general, 1 :> Q(100, 1))

GeneralTables ==
    {default_general,
     base_general,
     WithInputs(default_general, 1 :> Q(200, 1) @@ 2 :> Q(50, 1)),
     WithInputs(default_general, 1 :> Q(100, 1) @@ 3 :> Q(5, 1) @@ 4 :> Q(30, 1)),
     WithInputs(default_general, 2 :> Q(100, 1))}

\* the value a user of this model enters for a variable of a shared service
user_value(name) ==
    LET i == var_to_lst_idx_map(name) + 1
    IN  <<Q(5, 1), Q(100, 1), Q(50, 1), Q(5, 1), Q(2, 10), Q(50, 1),
          Q(40, 1), Q(20, 1), Q(20, 1), Q(10, 1), Q(10, 1),
          Q(10, 1), Q(5, 1), Q(10, 1), Q(5, 1), Q(10, 1)>>[i]

\* the shared-service tables with every input entered
user_shared_services ==
    [keys |-> default_shared_services.keys,
     val |-> [k \in Range(default_shared_services.keys) |->
                [i \in DOMAIN default_shared_services.val[k] |->
                   [default_shared_services.val[k][i] EXCEPT
                      !.userInput = user_value(default_shared_services.val[k][i].variable)]]]]

\* the traditional-mode tables with the public-transport and cycling inputs entered
user_trad_modes ==
    DictPut(DictPut(DictPut(default_trad_modes,
        "pt_road", WithInputs(default_trad_modes.val["pt_road"],
                              <<Q(60, 1), Q(30, 1), Q(1, 1), Q(20, 1)>>)),
        "pt_rail", WithInputs(default_trad_modes.val["pt_rail"], <<Q(1, 10), Q(10, 1)>>)),
        "cycling", WithInputs(default_trad_modes.val["cycling"], <<Q(20, 1)>>))

pt_road_mixed ==
    WithInputs(default_trad_modes.val["pt_road"], 1 :> Q(70, 1) @@ 3 :> Q(0 - 1, 1))

private_car_user ==
    WithInputs(default_trad_modes.val["private_car"], 1 :> Q(150, 1) @@ 4 :> Q(60, 1))

pt_road_dup ==
    Append(user_trad_modes.val["pt_road"], Row(lst_var_trad[2], Q(5, 1), Zero))

cycling_odd ==
    <<Row("Unknown variable", Q(9, 1), Q(9, 1)),
      Row("  Average NOx emissions (mg/km) ", Q(3, 1), Zero),
      Row(lca_name, Zero, Q(17, 1))>>

TradTables ==
    {default_trad_modes,
     user_trad_modes,
     DictPut(user_trad_modes, "pt_road", pt_road_mixed),
     DictPut(user_trad_modes, "private_car", private_car_user),
     DictPut(user_trad_modes, "pt_road", pt_road_dup),
     DictPut(user_trad_modes, "cycling", cycling_odd),
     DictPut(user_trad_modes, "pt_road", <<>>),
     DictRemove(user_trad_modes, {"pt_rail"}),
     DictRemove(user_trad_modes, {"private_car"}),
     DictRemove(user_trad_modes, {"pt_rail", "walking"}),
     DictRemove(user_trad_modes, {"pt_rail", "cycling", "walking"}),
     [keys |-> <<"walking", "cycling", "pt_rail", "pt_road", "private_car">>,
      val |-> user_trad_modes.val],
     EmptyDict}

ICEcar_mixed ==
    WithInputs(default_shared_services.val["var_nms_ICEcar"],
               1 :> Q(10, 1) @@ 6 :> Q(50, 1) @@ 11 :> Q(4, 1))

ICEcar_cancel ==
    WithInputs(default_shared_services.val["var_nms_ICEcar"],
               1 :> Q(5, 1) @@ 3 :> Q(0 - 5, 1))

ICEcar_dup ==
    Append(user_shared_services.val["var_nms_ICEcar"],
           Row(lst_var_nms[1], Q(3, 1), Zero))

cargo_rows ==
    WithInputs(default_shared_services.val["var_nms_ICEcar"],
               1 :> Q(2, 1) @@ 2 :> Q(100, 1) @@ 6 :> Q(10, 1) @@ 11 :> Q(5, 1))

\* rows for the electric car under a second key of the same column
ecar_other == WithInputs(user_shared_services.val["var_nms_ev"], 1 :> Q(8, 1))

NmsTables ==
    {default_shared_services,
     user_shared_services,
     DictPut(user_shared_services, "var_nms_ICEcar", ICEcar_mixed),
     DictPut(user_shared_services, "var_nms_ICEcar", ICEcar_cancel),
     DictPut(user_shared_services, "var_nms_ICEcar", ICEcar_dup),
     DictPut(user_shared_services, "var_nms_cargo", cargo_rows),
     DictPut(user_shared_services, "var_nms_bike", <<>>),
     DictPut(user_shared_services, "var_nms_ecar", ecar_other),
     DictOf(<<<<"var_nms_ICEcar", ICEcar_mixed>>>>)}

CoreArgs(country, inhabitants, shared_modes, general, trad, nms) ==
    [country |-> country, inhabitants |-> inhabitants,
     modal_split |-> base_modal_split, shared_modes |-> shared_modes,
     variables |-> [general |-> general, traditionalModes |-> trad,
                    sharedServices |-> nms]]

\* direct invocations of calculate_emissions
CoreCalls ==
    {CoreArgs(c, 1000, base_fleets, g, user_trad_modes, user_shared_services) :
        c \in {"Austria", "Belgium"}, g \in GeneralTables}
    \cup
    {CoreArgs(c, 1000, base_fleets, base_general, t, n) :
        c \in {"Austria", "Belgium"}, t \in TradTables, n \in NmsTables}
    \cup
    {CoreArgs(c, i, f, base_general, user_trad_modes, user_shared_services) :
        c \in {"Austria", "Atlantis"}, i \in {0, 500, 1000}, f \in FleetLists}

\* requests to POST /emissions, valid against the CalculationRequest schema
base_modalSplit ==
    [privateCar |-> [split |-> Q(40, 1), distance |-> Q(10, 1)],
     publicTransport |-> [road |-> [split |-> Q(20, 1), distance |-> Q(5, 1)],
                          rail |-> [split |-> Q(20, 1), distance |-> Q(10, 1)]],
     activeModes |-> [cycling |-> [split |-> Q(10, 1), distance |-> Q(5, 1)],
                      walking |-> [split |-> Q(10, 1), distance |-> Q(10, 1)]]]

active_rows ==
    <<Row(lca_name, Q(12, 1), Q(17, 1)), Row(lca_name, Zero, Q(2, 1)),
      Row(lca_name, Q(7, 1), Q(7, 1))>>

RequestTradMaps ==
    {EmptyDict,
     DictOf(<<<<"privateCar", private_car_user>>, <<"ptRoad", pt_road_mixed>>,
              <<"ptRail", default_trad_modes.val["pt_rail"]>>,
              <<"activeTransport", SubSeq(active_rows, 1, 2)>> >>),
     DictOf(<<<<"ptRoad", pt_road_dup>> >>),
     DictOf(<<<<"activeTransport", SubSeq(active_rows, 1, 1)>> >>),
     DictOf(<<<<"ptRail", <<>> >>, <<"private_car", private_car_user>> >>),
     DictOf(<<<<"activeTransport", active_rows>> >>),
     DictOf(<<<<"ptRoad", pt_road_mixed>>, <<"activeTransport", <<>> >> >>)}

RequestServiceMaps ==
    {EmptyDict,
     DictOf(<<<<"ice_car", ICEcar_mixed>> >>),
     DictOf(<<<<"e_car", <<>> >> >>),
     DictOf(<<<<"e_car", user_shared_services.val["var_nms_ev"]>>,
              <<"var_nms_cargo", cargo_rows>> >>),
     DictOf(<<<<"e_car", user_shared_services.val["var_nms_ev"]>>,
              <<"var_nms_ev", ecar_other>> >>)}

Requests ==
    {[country |-> c, inhabitants |-> 1000, modalSplit |-> base_modalSplit,
      sharedModes |-> base_fleets,
      variables |-> [general |-> g, traditionalModes |-> t, sharedServices |-> n]] :
        c \in {"Austria", "Atlantis"},
        g \in {base_general, WithInputs(default_general, 2 :> Q(100, 1))},
        t \in RequestTradMaps, n \in RequestServiceMaps}

\* lines 47-58
modal_split_dict(request) ==
    [ms_pcar |-> request.modalSplit.privateCar.split,
     dist_pcar |-> request.modalSplit.privateCar.distance,
     ms_road |-> request.modalSplit.publicTransport.road.split,
     dist_road |-> request.modalSplit.publicTransport.road.distance,
     ms_rail |-> request.modalSplit.publicTransport.rail.split,
     dist_rail |-> request.modalSplit.publicTransport.rail.distance,
     ms_cyc |-> request.modalSplit.activeModes.cycling.split,
     dist_cyc |-> request.modalSplit.activeModes.cycling.distance,
     ms_walk |-> request.modalSplit.activeModes.walking.split,
     dist_walk |-> request.modalSplit.activeModes.walking.distance]

\* lines 331-337: the arguments the route passes to calculate_emissions
endpoint_args(request) ==
    [country |-> request.country, inhabitants |-> request.inhabitants,
     modal_split |-> modal_split_dict(request),
     shared_modes |-> request.sharedModes,
     variables |-> variables_dict(request)]

(***************************************************************************)
(* routes/variables.py: the in-memory variable store and its handlers      *)
(***************************************************************************)
\* dict.get(key, default)
DictGet(d, k, default) == IF DictHas(d, k) THEN d.val[k] ELSE default

\* variables.py line 31: _variables_storage = {}
EmptyStorage == EmptyDict

\* variables.py lines 89-106: the tables of get_traditional_modes_variables
variables_default_trad_modes ==
    DictOf(<<
      <<"pt_road",
        DefaultRows(<<lst_var_trad[1], lst_var_trad[2], lst_var_trad[3], lst_var_trad[5]>>,
                    <<Q(63, 1), Q(3067, 100), Q(67, 100), Q(20, 1)>>)>>,
      <<"pt_rail",
        DefaultRows(<<lst_var_trad[4], lst_var_trad[5]>>, <<Q(9, 100), Q(13, 1)>>)>>,
      <<"cycling", DefaultRows(<<lst_var_trad[5]>>, <<Q(17, 1)>>)>>,
      <<"walking", DefaultRows(<<lst_var_trad[5]>>, <<Zero>>)>> >>)

\* variables.py lines 293-440: the tables of get_shared_services_variables
variables_default_shared_services ==
    DictOf(<<
      <<"ice_car",
        DefaultRows(ice_names,
                    [Zeros(15) EXCEPT ![1] = Q(5, 1), ![2] = Q(13338, 100),
                                      ![3] = Q(60, 1), ![4] = Q(45, 10), ![5] = Q(55, 1)])>>,
      <<"ice_moped",
        DefaultRows(ice_names,
                    [Zeros(15) EXCEPT ![1] = Q(5, 1), ![2] = Q(37, 1),
                                      ![3] = Q(60, 1), ![4] = Q(45, 10), ![5] = Q(31, 1)])>>,
      <<"bike",
        DefaultRows(bike_names, [Zeros(12) EXCEPT ![1] = Q(4, 1), ![2] = Q(58, 1)])>>,
      <<"e_car",
        DefaultRows(ev_names,
                    [Zeros(13) EXCEPT ![1] = Q(5, 1), ![2] = Q(17, 100), ![3] = Q(81, 1)])>>,
      <<"e_bike",
        DefaultRows(ev_names,
                    [Zeros(13) EXCEPT ![1] = Q(4, 1), ![2] = Q(103, 10000), ![3] = Q(71, 1)])>>,
      <<"e_moped",
        DefaultRows(lst_var_nms,
                    [Zeros(16) EXCEPT ![1] = Q(5, 1), ![5] = Q(33, 1000), ![6] = Q(59, 1)])>>,
      <<"e_scooter",
        DefaultRows(escooter_names,
                    [Zeros(15) EXCEPT ![1] = Q(5, 1), ![2] = Q(16, 1000), ![5] = Q(100, 1)])>>,
      <<"other", DefaultRows(ice_names, Zeros(15))>>,
      <<"e_other", DefaultRows(ev_names, Zeros(13))>> >>)

\* get_general_variables, lines 42-56
get_general_variables(storage) ==
    IF DictHas(storage, "general") THEN storage.val["general"] ELSE default_general

\* get_traditional_modes_variables answering the saved active transport rows
\* whatever their number
get_traditional_modes_variables_any_length(storage) ==
    LET d == variables_default_trad_modes
        stored == DictGet(storage, "traditionalModes", EmptyDict)
    IN  [privateCar |-> DictGet(stored, "private_car", <<>>),
         ptRoad |-> DictGet(stored, "pt_road", d.val["pt_road"]),
         ptRail |-> DictGet(stored, "pt_rail", d.val["pt_rail"]),
         activeTransport |->
            DictGet(stored, "active_transport", d.val["cycling"] \o d.val["walking"])]

\* get_traditional_modes_variables, lines 109-132
get_traditional_modes_variables(storage) ==
    LET d == variables_default_trad_modes
        default_active == d.val["cycling"] \o d.val["walking"]
    IN  IF DictHas(storage, "traditionalModes")
        THEN LET stored == storage.val["traditionalModes"]
                 saved_active == DictGet(stored, "active_transport", <<>>)
             IN  [privateCar |-> DictGet(stored, "private_car", <<>>),
                  ptRoad |-> DictGet(stored, "pt_road", d.val["pt_road"]),
                  ptRail |-> DictGet(stored, "pt_rail", d.val["pt_rail"]),
                  activeTransport |-> IF saved_active # <<>> /\ Len(saved_active) >= 2
                                      THEN saved_active ELSE default_active]
        ELSE [privateCar |-> <<>>,
              ptRoad |-> d.val["pt_road"],
              ptRail |-> d.val["pt_rail"],
              activeTransport |-> default_active]

\* get_shared_services_variables, lines 443-459: one table per default key
get_shared_services_variables(storage) ==
    LET d == variables_default_shared_services
        saved == DictGet(storage, "sharedServices", EmptyDict)
    IN  [keys |-> d.keys,
         val |-> [key \in Range(d.keys) |->
                    IF DictHas(saved, key) THEN saved.val[key] ELSE d.val[key]]]

\* line 151: the modes save_traditional_mode_variables accepts
allowed_modes == <<"private_car", "pt_road", "pt_rail", "active_transport">>

\* line 480: re.match(r"^[a-zA-Z0-9_]+$", service), on the names the model sends
service_name_matches(service) == service \in {"ice_car", "e_moped", "fleet_2"}

\* the last request to a variables endpoint (what it sent) and its answer
Answer(endpoint, sent, status_code, body) ==
    [endpoint |-> endpoint, sent |-> sent, status_code |-> status_code, body |-> body]

NoAnswer == Answer("none", <<>>, 0, <<>>)

\* the three tables a client can read back
StoredTables(storage) ==
    [general |-> get_general_variables(storage),
     traditionalModes |-> get_traditional_modes_variables(storage),
     sharedServices |-> get_shared_services_variables(storage)]

\* GET /general
GetGeneral ==
    /\ pc = "idle"
    /\ variables_response' =
           Answer("GET general", <<>>, 200, get_general_variables(_variables_storage))
    /\ UNCHANGED <<engine_vars, _variables_storage, loader_vars>>

\* GET /traditional-modes
GetTraditionalModes ==
    /\ pc = "idle"
    /\ variables_response' =
           Answer("GET traditional-modes", <<>>, 200,
                  get_traditional_modes_variables(_variables_storage))
    /\ UNCHANGED <<engine_vars, _variables_storage, loader_vars>>

\* GET /shared-services
GetSharedServices ==
    /\ pc = "idle"
    /\ variables_response' =
           Answer("GET shared-services", <<>>, 200,
                  get_shared_services_variables(_variables_storage))
    /\ UNCHANGED <<engine_vars, _variables_storage, loader_vars>>

\* POST /general, lines 58-78
save_general_variables(variables) ==
    /\ pc = "idle"
    /\ _variables_storage' = DictPut(_variables_storage, "general", variables)
    /\ variables_response' =
           Answer("POST general", [variables |-> variables], 200, <<"General variables saved successfully">>)
    /\ UNCHANGED <<engine_vars, loader_vars>>

\* save_traditional_mode_variables replacing the whole table of saved modes
save_traditional_mode_variables_replacing(mode, variables) ==
    /\ pc = "idle"
    /\ IF mode \notin Range(allowed_modes)
       THEN /\ variables_response' =
                   Answer("POST traditional-modes", [mode |-> mode, variables |-> variables], 400,
                          <<"Invalid mode. Allowed modes: private_car, pt_road, pt_rail, active_transport">>)
            /\ UNCHANGED _variables_storage
       ELSE /\ _variables_storage' =
                   DictPut(_variables_storage, "traditionalModes",
                           DictPut(EmptyDict, mode, variables))
            /\ variables_response' =
                   Answer("POST traditional-modes", [mode |-> mode, variables |-> variables], 200,
                          <<mode, " variables saved successfully">>)
    /\ UNCHANGED <<engine_vars, loader_vars>>

\* POST /traditional-modes/{mode}, lines 135-169
save_traditional_mode_variables(mode, variables) ==
    /\ pc = "idle"
    /\ IF mode \notin Range(allowed_modes)
       THEN /\ variables_response' =
                   Answer("POST traditional-modes", [mode |-> mode, variables |-> variables], 400,
                          <<"Invalid mode. Allowed modes: private_car, pt_road, pt_rail, active_transport">>)
            /\ UNCHANGED _variables_storage
       ELSE /\ _variables_storage' =
                   DictPut(_variables_storage, "traditionalModes",
                           DictPut(DictGet(_variables_storage, "traditionalModes", EmptyDict),
                                   mode, variables))
            /\ variables_response' =
                   Answer("POST traditional-modes", [mode |-> mode, variables |-> variables], 200,
                          <<mode, " variables saved successfully">>)
    /\ UNCHANGED <<engine_vars, loader_vars>>

\* POST /shared-services/{service}, lines 462-497
save_shared_service_variables(service, variables) ==
    /\ pc = "idle"
    /\ IF ~service_name_matches(service)
       THEN /\ variables_response' =
                   Answer("POST shared-services",
                          [service |-> service, variables |-> variables], 400,
                          <<"Invalid service name format. Use alphanumeric characters and underscores only.">>)
            /\ UNCHANGED _variables_storage
       ELSE /\ _variables_storage' =
                   DictPut(_variables_storage, "sharedServices",
                           DictPut(DictGet(_variables_storage, "sharedServices", EmptyDict),
                                   service, variables))
            /\ variables_response' =
                   Answer("POST shared-services",
                          [service |-> service, variables |-> variables], 200,
                          <<service, " variables saved successfully">>)
    /\ UNCHANGED <<engine_vars, loader_vars>>

(***************************************************************************)
(* routes/data.py and the private-car-defaults endpoint of                 *)
(* routes/variables.py, which read the data loader                         *)
(***************************************************************************)
\* the country names the model sends to the data endpoints
CountryInputs == {"Austria", "Belgium", "Greece", "Atlantis", " Austria ", "Austria;"}

\* data.py line 39: country.strip()
country_strip(country) == IF country = " Austria " THEN "Austria" ELSE country

\* data.py line 43: re.match(r"^[a-zA-Z0-9\s\-']+$", sanitized), on the names
\* the model sends
country_name_matches(sanitized) == sanitized \notin {"Austria;"}

\* _sanitize_country_name, data.py lines 23-51
_sanitize_country_name(country) ==
    IF country_name_matches(country_strip(country))
    THEN [err |-> "none", sanitized |-> country_strip(country)]
    ELSE [err |-> "HTTPException", sanitized |-> ""]

failed_defaults ==
    [status_code |-> 400,
     detail |-> "Failed to compute private car defaults. Please check the country name.",
     body |-> <<>>]

\* get_private_car_defaults with the WLTP correction for every year
get_private_car_defaults_wltp(country, got) ==
    LET s == _sanitize_country_name(country)
        cd == get_country_data(s.sanitized)
    IN  IF s.err # "none"
        THEN [status_code |-> 400, detail |-> "Invalid country name format", body |-> <<>>]
        ELSE IF got.raised # None \/ cd.err # "none" THEN failed_defaults
        ELSE
        LET car_year == round(RSub(Q(2024, 1), cd.data.averageAge))
            year_index == max_year - car_year
            fuel_dist == cd.data.fuelDistribution
            share(fuel) == RDiv(fuel_dist[fuel], Q(100, 1))
            weighted(p, d) ==
                RMul(RAdd(RMul(share("petrol"), air_emission(year_index, p)),
                          RMul(share("diesel"), air_emission(year_index, d))),
                     Q(1000, 1))
        IN  IF year_index \notin year_index_range \/ country \notin country_list
            THEN failed_defaults
            ELSE [status_code |-> 200, detail |-> "",
                  body |->
                    <<Row(lst_var_trad[1], Zero,
                          RMul(car_co2(year_index, country), Q(114, 100))),
                      Row(lst_var_trad[2], Zero, weighted("petrol_nox", "diesel_nox")),
                      Row(lst_var_trad[3], Zero, weighted("petrol_pm", "diesel_pm")),
                      Row(lst_var_trad[5], Zero, Q(55, 1))>>]

\* get_private_car_defaults, variables.py lines 172-281, given what
\* get_data_loader raised or returned
get_private_car_defaults(country, got) ==
    LET s == _sanitize_country_name(country)
        cd == get_country_data(s.sanitized)
    IN  IF s.err # "none"
        THEN [status_code |-> 400, detail |-> "Invalid country name format", body |-> <<>>]
        ELSE IF got.raised # None \/ cd.err # "none" THEN failed_defaults
        ELSE
        LET car_year == round(RSub(Q(2024, 1), cd.data.averageAge))
            year_index == max_year - car_year
            fuel_dist == cd.data.fuelDistribution
            share(fuel) == RDiv(fuel_dist[fuel], Q(100, 1))
            weighted(p, d) ==
                RMul(RAdd(RMul(share("petrol"), air_emission(year_index, p)),
                          RMul(share("diesel"), air_emission(year_index, d))),
                     Q(1000, 1))
        IN  \* line 214 reads the column of the name as it was sent
            IF year_index \notin year_index_range \/ country \notin country_list
            THEN failed_defaults
            ELSE [status_code |-> 200, detail |-> "",
                  body |->
                    <<Row(lst_var_trad[1], Zero,
                          RMul(car_co2(year_index, country),
                               IF car_year <= 2020 THEN Q(14, 10) ELSE Q(114, 100))),
                      Row(lst_var_trad[2], Zero, weighted("petrol_nox", "diesel_nox")),
                      Row(lst_var_trad[3], Zero, weighted("petrol_pm", "diesel_pm")),
                      Row(lst_var_trad[5], Zero, Q(55, 1))>>]

\* get_countries, data.py lines 56-85
get_countries(got) ==
    IF got.raised # None
    THEN [status_code |-> 500,
          detail |-> "Error loading countries. Please try again later.", body |-> <<>>]
    ELSE [status_code |-> 200, detail |-> "", body |-> country_columns]

\* the endpoint get_country_data, data.py lines 88-132
get_country_data_endpoint(country, got) ==
    LET s == _sanitize_country_name(country)
        cd == get_country_data(s.sanitized)
    IN  IF s.err # "none"
        THEN [status_code |-> 400, detail |-> "Invalid country name format", body |-> <<>>]
        ELSE IF got.raised # None
        THEN [status_code |-> 500,
              detail |-> "Error loading country data. Please try again later.",
              body |-> <<>>]
        ELSE IF cd.err # "none"
        THEN [status_code |-> 404, detail |-> "Country not found", body |-> <<>>]
        ELSE [status_code |-> 200, detail |-> "", body |-> cd.data]

\* car_co2.columns.tolist(): the year, the countries and the column that
\* get_country_list leaves out at the end
car_co2_columns == <<"year">> \o country_columns \o <<"EU27">>

\* get_co2_emissions, data.py lines 140-168: the table as columns and records
get_co2_emissions(got) ==
    IF got.raised # None
    THEN [status_code |-> 500,
          detail |-> "Error loading CO2 emissions data. Please try again later.",
          body |-> <<>>]
    ELSE [status_code |-> 200, detail |-> "",
          body |-> [columns |-> car_co2_columns,
                    data |-> [k \in 1 .. NumYears |->
                                [col \in Range(car_co2_columns) |->
                                   IF col = "year" THEN Q(max_year - (k - 1), 1)
                                   ELSE car_co2(k - 1, col)]]]]

\* get_electricity_intensity, data.py lines 171-199: one record, a column
\* per country
get_electricity_intensity(got) ==
    IF got.raised # None
    THEN [status_code |-> 500,
          detail |-> "Error loading electricity intensity data. Please try again later.",
          body |-> <<>>]
    ELSE [status_code |-> 200, detail |-> "",
          body |-> [columns |-> country_columns,
                    data |-> <<[country \in country_list |->
                                  elec_co2_country(country)]>>]]

NoDataResponse == [endpoint |-> "none"]

\* the globals and the count of readings after a call of get_data_loader
Loaded(got) ==
    /\ _data_loader' = got.loader
    /\ _data_loader_error' = got.error
    /\ loads' = got.loads

\* a direct call of get_data_loader
CallGetDataLoader ==
    /\ pc = "idle"
    /\ \E got \in {get_data_loader(_data_loader, _data_loader_error, data_files, loads)} :
           /\ Loaded(got)
           /\ data_response' = [endpoint |-> "get_data_loader", raised |-> got.raised,
                                returned |-> got.returned]
    /\ UNCHANGED <<engine_vars, store_vars, data_files>>

\* GET /countries
GetCountries ==
    /\ pc = "idle"
    /\ \E got \in {get_data_loader(_data_loader, _data_loader_error, data_files, loads)} :
           /\ Loaded(got)
           /\ data_response' = [endpoint |-> "countries", answer |-> get_countries(got)]
    /\ UNCHANGED <<engine_vars, store_vars, data_files>>

\* GET /country-constants/co2-emissions
GetCo2Emissions ==
    /\ pc = "idle"
    /\ \E got \in {get_data_loader(_data_loader, _data_loader_error, data_files, loads)} :
           /\ Loaded(got)
           /\ data_response' = [endpoint |-> "co2-emissions",
                                answer |-> get_co2_emissions(got)]
    /\ UNCHANGED <<engine_vars, store_vars, data_files>>

\* GET /country-constants/electricity-intensity
GetElectricityIntensity ==
    /\ pc = "idle"
    /\ \E got \in {get_data_loader(_data_loader, _data_loader_error, data_files, loads)} :
           /\ Loaded(got)
           /\ data_response' = [endpoint |-> "electricity-intensity",
                                answer |-> get_electricity_intensity(got)]
    /\ UNCHANGED <<engine_vars, store_vars, data_files>>

\* GET /country/{country}/data: the loader is asked for after the name is checked
GetCountryData ==
    /\ pc = "idle"
    /\ \E country \in CountryInputs :
         \E got \in {IF _sanitize_country_name(country).err # "none"
                      THEN [raised |-> None, returned |-> None, loader |-> _data_loader,
                            error |-> _data_loader_error, loads |-> loads]
                      ELSE get_data_loader(_data_loader, _data_loader_error, data_files, loads)} :
           /\ Loaded(got)
           /\ data_response' = [endpoint |-> "country data", country |-> country,
                                answer |-> get_country_data_endpoint(country, got)]
    /\ UNCHANGED <<engine_vars, store_vars, data_files>>

\* GET /traditional-modes/private-car-defaults?country=...
GetPrivateCarDefaults ==
    /\ pc = "idle"
    /\ \E country \in CountryInputs :
         \E got \in {IF _sanitize_country_name(country).err # "none"
                      THEN [raised |-> None, returned |-> None, loader |-> _data_loader,
                            error |-> _data_loader_error, loads |-> loads]
                      ELSE get_data_loader(_data_loader, _data_loader_error, data_files, loads)} :
           /\ Loaded(got)
           /\ data_response' = [endpoint |-> "private-car-defaults", country |-> country,
                                answer |-> get_private_car_defaults(country, got)]
    /\ UNCHANGED <<engine_vars, store_vars, data_files>>

\* the reference files appear on disk or go missing
FilesChange ==
    /\ pc = "idle"
    /\ \E files \in FileStates \ {data_files} : data_files' = files
    /\ UNCHANGED <<engine_vars, store_vars, _data_loader, _data_loader_error, loads,
                   data_response>>

(***************************************************************************)
(* State machine: a call arrives, is served in one step, and returns       *)
(***************************************************************************)
NoCall == [via |-> "none"]
NoOutcome == [err |-> "pending", raised_in |-> "", result |-> <<>>]
NoResponse == [status_code |-> 0]

\* the arguments of calculate_emissions in the current call
Args == IF call.via = "route" THEN endpoint_args(call.request) ELSE call.args

\* no call is being served
Idle ==
    /\ pc = "idle"
    /\ call = NoCall
    /\ df_var_nms = NoTable
    /\ df_var_trad = NoTable
    /\ df_var_gen = NoGeneral
    /\ df_calc = NoCalc
    /\ outcome = NoOutcome
    /\ response = NoResponse

\* the application after start-up, whatever is on disk: nothing saved, no
\* file read (data_loader.py lines 373-374, variables.py line 31)
Init ==
    /\ Idle
    /\ _variables_storage = EmptyStorage
    /\ variables_response = NoAnswer
    /\ data_files \in FileStates
    /\ _data_loader = None
    /\ _data_loader_error = None
    /\ loads = 0
    /\ data_response = NoDataResponse

InvokeCore ==
    /\ pc = "idle"
    /\ \E a \in CoreCalls : call' = [via |-> "core", args |-> a]
    /\ pc' = "called"
    /\ UNCHANGED <<df_var_nms, df_var_trad, df_var_gen, df_calc, outcome, response>>
    /\ UNCHANGED <<store_vars, loader_vars>>

ReceiveRequest ==
    /\ pc = "idle"
    /\ \E r \in Requests : call' = [via |-> "route", request |-> r]
    /\ pc' = "called"
    /\ UNCHANGED <<df_var_nms, df_var_trad, df_var_gen, df_calc, outcome, response>>
    /\ UNCHANGED <<store_vars, loader_vars>>

Run(a, got) ==
    calculate_emissions(a.country, a.inhabitants, a.modal_split, a.shared_modes,
                        a.variables, got)

\* get_data_loader() in the current state
GetDataLoader == get_data_loader(_data_loader, _data_loader_error, data_files, loads)

\* CalculateEmissions taking the general table from the variable store
CalculateEmissions_reading_the_store ==
    /\ pc = "called"
    /\ \E got \in {GetDataLoader} :
         \E r \in {Run([Args EXCEPT !.variables.general =
                                      DictGet(_variables_storage, "general", @)],
                       got)} :
           /\ outcome' = [err |-> r.err, raised_in |-> r.raised_in, result |-> r.result]
           /\ df_var_nms' = r.nms
           /\ df_var_trad' = r.trad
           /\ df_var_gen' = r.gen
           /\ df_calc' = r.df_calc
           /\ response' = IF call.via = "route" THEN http_response(r) ELSE NoResponse
           /\ Loaded(got)
    /\ pc' = "done"
    /\ UNCHANGED call
    /\ UNCHANGED <<store_vars, data_files, data_response>>

\* calculate_emissions on the arguments of the call, its call of
\* get_data_loader (line 39) included; for a request the route converts the
\* request first (lines 47-337) and answers afterwards (339-375)
CalculateEmissions ==
    /\ pc = "called"
    /\ \E got \in {GetDataLoader} :
         \E r \in {Run(Args, got)} :
           /\ outcome' = [err |-> r.err, raised_in |-> r.raised_in, result |-> r.result]
           /\ df_var_nms' = r.nms
           /\ df_var_trad' = r.trad
           /\ df_var_gen' = r.gen
           /\ df_calc' = r.df_calc
           /\ response' = IF call.via = "route" THEN http_response(r) ELSE NoResponse
           /\ Loaded(got)
    /\ pc' = "done"
    /\ UNCHANGED call
    /\ UNCHANGED <<store_vars, data_files, data_response>>

Return ==
    /\ pc = "done"
    /\ pc' = "idle"
    /\ call' = NoCall
    /\ df_var_nms' = NoTable
    /\ df_var_trad' = NoTable
    /\ df_var_gen' = NoGeneral
    /\ df_calc' = NoCalc
    /\ outcome' = NoOutcome
    /\ response' = NoResponse
    /\ UNCHANGED <<store_vars, loader_vars>>

Next ==
    \/ InvokeCore
    \/ ReceiveRequest
    \/ CalculateEmissions
    \/ Return

Spec == Init /\ [][Next]_vars

(***************************************************************************)
(* The variable store served on its own                                    *)
(***************************************************************************)
GeneralSaves == {WithInputs(default_general, 2 :> Q(50, 1))}

TradSaveModes == {"pt_road", "active_transport", "cycling"}

TradSaveRows == {<<>>, SubSeq(active_rows, 1, 1), SubSeq(active_rows, 1, 2)}

ServiceSaveNames == {"ice_car", "fleet_2", "e-car"}

ServiceSaveRows == {ICEcar_mixed}

\* the application after start-up with its files in place; the handlers of
\* the store read no file
StoreInit == Init /\ data_files = "readable"

SaveGeneral == \E v \in GeneralSaves : save_general_variables(v)

SaveTraditionalMode ==
    \E mode \in TradSaveModes, v \in TradSaveRows : save_traditional_mode_variables(mode, v)

SaveSharedService ==
    \E service \in ServiceSaveNames, v \in ServiceSaveRows :
        save_shared_service_variables(service, v)

StoreNext ==
    \/ GetGeneral
    \/ GetTraditionalModes
    \/ GetSharedServices
    \/ SaveGeneral
    \/ SaveTraditionalMode
    \/ SaveSharedService

StoreSpec == StoreInit /\ [][StoreNext]_vars

(***************************************************************************)
(* Calculation requests served between saves                               *)
(***************************************************************************)
SaveGeneralOnce ==
    save_general_variables(WithInputs(default_general, 1 :> Q(200, 1) @@ 2 :> Q(50, 1)))

SavePtRoadOnce == save_traditional_mode_variables("pt_road", SubSeq(active_rows, 1, 1))

ServeNext ==
    \/ ReceiveRequest
    \/ CalculateEmissions
    \/ Return
    \/ SaveGeneralOnce
    \/ SavePtRoadOnce
    \/ FilesChange

ServeSpec == Init /\ [][ServeNext]_vars

(***************************************************************************)
(* The data loader and the endpoints that read the reference data          *)
(***************************************************************************)
\* the application after start-up, whatever is on disk
DataInit == Init

DataNext ==
    \/ CallGetDataLoader
    \/ GetCountries
    \/ GetCountryData
    \/ GetCo2Emissions
    \/ GetElectricityIntensity
    \/ GetPrivateCarDefaults
    \/ FilesChange

DataSpec == DataInit /\ [][DataNext]_vars

(***************************************************************************)
(* Properties of the resolved tables and of the result                     *)
(***************************************************************************)
Pos(seq, x) == CHOOSE i \in DOMAIN seq : seq[i] = x

\* what a row stands for when it resolves on its own
Effective(r) == IF IsZero(r.userInput) THEN r.defaultValue ELSE r.userInput

NmsPrepared == pc = "done" /\ Len(df_var_nms.cols) > 0

GenPrepared == pc = "done" /\ df_var_gen # NoGeneral

\* the three private-car rows that _update_defaults_from_dashboard writes
DashboardRow(m, name) ==
    m = "private_car" /\ name \in {lst_var_trad[1], lst_var_trad[2], lst_var_trad[3]}

TradValue(m, name) == df_var_trad.rows[Pos(lst_var_trad, name)].v[m]

NmsValue(name, col, x) ==
    \E j \in DOMAIN df_var_nms.rows :
        df_var_nms.rows[j].variable = name /\ df_var_nms.rows[j].v[col] = x

\* the private-car defaults calculate_emissions works out for a country
\* (lines 42-47 and 54-56), or the error it raises on the way
EngineDefaults(country) ==
    LET cd == get_country_data(country)
    IN  IF cd.err # "none" THEN [err |-> cd.err, values |-> <<>>]
        ELSE LET u == _update_defaults_from_dashboard(
                          _prepare_trad_variables(default_trad_modes).df, country,
                          round(RSub(Q(2024, 1), cd.data.averageAge)),
                          cd.data.fuelDistribution)
             IN  IF u.err # "none" THEN [err |-> u.err, values |-> <<>>]
                 ELSE [err |-> "none",
                       values |-> [i \in 1 .. 3 |-> u.df.rows[i].v["private_car"]]]

\* the defaultValue of a general row when the rows resolve: the value looked
\* up for the country at positions 0, 2, 3, 4 and 5, the supplied one at
\* position 1
GeneralDefault(i) ==
    LET cd == get_country_data(Args.country).data
    IN  <<cd.electricityCo2, Args.variables.general[2].defaultValue, cd.averageAge,
          cd.fuelDistribution.petrol, cd.fuelDistribution.diesel,
          cd.fuelDistribution.ev>>[i]

\* the defaultValue of a traditional-mode row when the rows resolve: the
\* country-derived value for the three private-car rows of the dashboard
\* step, the supplied one elsewhere
TradDefault(m, row) ==
    IF DashboardRow(m, strip(row.variable))
    THEN EngineDefaults(Args.country).values[Pos(lst_var_trad, strip(row.variable))]
    ELSE row.defaultValue

Resolved(userInput, defaultValue) ==
    IF IsZero(userInput) THEN defaultValue ELSE userInput

GeneralRowsResolve ==
    LET G == Args.variables.general
    IN  \A i \in DOMAIN G :
           df_var_gen[i].general = Resolved(G[i].userInput, GeneralDefault(i))

TradRowsResolve ==
    LET T == Args.variables.traditionalModes
    IN  \A m \in Range(df_var_trad.cols) : \A i \in DOMAIN T.val[m] :
            LET name == strip(T.val[m][i].variable)
            IN  name \in Range(lst_var_trad)
                => TradValue(m, name) =
                      Resolved(T.val[m][i].userInput, TradDefault(m, T.val[m][i]))

\* the defaults of a shared-service category: the built-in ones where the
\* engine has them, the supplied ones otherwise
NmsCategoryDefaults(k) ==
    nms_update_defaults(nms_key_mapping(k), Args.variables.sharedServices.val[k],
                        Args.modal_split)

NmsRowsResolve ==
    LET S == Args.variables.sharedServices
    IN  \A k \in Range(S.keys) : \A i \in DOMAIN S.val[k] :
            LET name == strip(S.val[k][i].variable)
            IN  name \in Range(lst_var_nms)
                => NmsValue(name, nms_key_mapping(k),
                            Resolved(S.val[k][i].userInput,
                                     NmsCategoryDefaults(k)[i].defaultValue))

\* two keys of the shared-service map of the call name the same column
KeysCollide ==
    LET keys == IF call.via = "route" THEN call.request.variables.sharedServices.keys
                ELSE call.args.variables.sharedServices.keys
        column(k) == nms_key_mapping(IF call.via = "route"
                                     THEN shared_services_key_map(k) ELSE k)
    IN  \E i, j \in DOMAIN keys : i # j /\ column(keys[i]) = column(keys[j])

\* a call that resolved its three tables
TablesResolved ==
    /\ GenPrepared
    /\ outcome.raised_in \in {"", "_perform_calculations", "_format_results"}

\* C1: every row of the general, the traditional-mode and the shared-service
\* tables resolves on its own: the value used downstream is the row's
\* defaultValue when its userInput is 0 and its userInput otherwise, whatever
\* its sign.
C1_EveryRowResolvesAlone ==
    TablesResolved => GeneralRowsResolve /\ TradRowsResolve /\ NmsRowsResolve

\* the rows that resolve on their own in the code: the general row of the
\* well-to-tank fraction and the traditional-mode rows other than the three
\* private-car rows of the dashboard step
C1_HoldsForUntouchedRows ==
    TablesResolved =>
       /\ df_var_gen[2].general = Effective(Args.variables.general[2])
       /\ LET T == Args.variables.traditionalModes
          IN  \A m \in Range(df_var_trad.cols) : \A i \in DOMAIN T.val[m] :
                 LET name == strip(T.val[m][i].variable)
                 IN  (name \in Range(lst_var_trad) /\ ~DashboardRow(m, name))
                     => TradValue(m, name) = Effective(T.val[m][i])

AllZero(rows) == \A i \in DOMAIN rows : IsZero(rows[i].userInput)

SumsToZero(rows) == IsZero(SumSeq([i \in DOMAIN rows |-> rows[i].userInput]))

NmsCategoriesFallBack(whole(_)) ==
    LET S == Args.variables.sharedServices
    IN  \A k \in Range(S.keys) : \A i \in DOMAIN S.val[k] :
            LET name == strip(S.val[k][i].variable)
            IN  name \in Range(lst_var_nms)
                => NmsValue(name, nms_key_mapping(k),
                            IF whole(S.val[k]) THEN NmsCategoryDefaults(k)[i].defaultValue
                            ELSE S.val[k][i].userInput)

TradCategoriesFallBack ==
    LET T == Args.variables.traditionalModes
    IN  \A m \in Range(df_var_trad.cols) : \A i \in DOMAIN T.val[m] :
            LET name == strip(T.val[m][i].variable)
            IN  name \in Range(lst_var_trad)
                => TradValue(m, name) = IF AllZero(T.val[m])
                                        THEN TradDefault(m, T.val[m][i])
                                        ELSE T.val[m][i].userInput

\* C2: in every shared-service and every traditional-mode category the
\* defaults replace the inputs exactly when every supplied row is 0; with one
\* non-zero input no row falls back and the rows left at 0 stay 0.
C2_CategoryFallsBackWhenAllZero ==
    TablesResolved => NmsCategoriesFallBack(AllZero) /\ TradCategoriesFallBack

\* what the code does for the shared-service categories whose keys name a
\* column each: the defaults replace the inputs when the inputs of the
\* category sum to 0
C2_SharedCategoryFallsBackWhenSumIsZero ==
    (TablesResolved /\ ~KeysCollide) => NmsCategoriesFallBack(SumsToZero)

\* C3: a general row at position 0, 2, 3, 4 or 5 whose userInput is 0 takes
\* the value looked up for the country, and the row at position 1 resolves
\* from the supplied table.
C3_CountryValuesForUnsetGeneralRows ==
    GenPrepared =>
        LET G == Args.variables.general
            cd == get_country_data(Args.country).data
            looked_up == <<cd.electricityCo2, G[2].defaultValue, cd.averageAge,
                           cd.fuelDistribution.petrol, cd.fuelDistribution.diesel,
                           cd.fuelDistribution.ev>>
        IN  /\ \A i \in {1, 3, 4, 5, 6} :
                  IsZero(G[i].userInput) => df_var_gen[i].general = looked_up[i]
            /\ df_var_gen[2].general = Effective(G[2])

\* C4: a private-car Tank-to-Wheel CO2, NOx or PM row with a non-zero
\* userInput keeps that input in the resolved table.
C4_PrivateCarInputIsKept ==
    (GenPrepared /\ "private_car" \in Range(df_var_trad.cols)) =>
        LET rows == Args.variables.traditionalModes.val["private_car"]
        IN  \A i \in DOMAIN rows :
                (DashboardRow("private_car", strip(rows[i].variable))
                 /\ ~IsZero(rows[i].userInput))
                => TradValue("private_car", strip(rows[i].variable)) = rows[i].userInput

\* C5: when the normalisation of the traditional-mode tables finds none of
\* the known modes, or misses one of pt_road, pt_rail, cycling and walking,
\* the invocation fails with a validation error and returns no result.
C5_MissingTradModeIsRejected ==
    (pc = "done"
     /\ outcome.raised_in \notin {"get_data_loader", "get_country_data",
                                  "_prepare_nms_variables"}
     /\ LET keys == Range(Args.variables.traditionalModes.keys)
        IN  \/ keys \cap Range(TRAD_TYPES) = {}
            \/ \E m \in {"pt_road", "pt_rail", "cycling", "walking"} : m \notin keys)
    => (outcome.err = "ValueError" /\ outcome.result = <<>>)

Succeeded == pc = "done" /\ outcome.err = "none"

\* C6: for each of the five modes total = ttw + wtt + lca, and the kg/day of
\* the aggregate CO2 total is the sum of the kg/day of its three parts.
C6_TotalIsSumOfParts ==
    Succeeded =>
        /\ \A m \in Range(NMS_TYPES) :
              LET e == outcome.result.perMode[m]
              IN  e.total = RAdd(RAdd(e.ttw, e.wtt), e.lca)
        /\ LET co2 == outcome.result.totals.co2
           IN  co2.total.kgPerDay =
                   RAdd(RAdd(co2.tankToWheel.kgPerDay, co2.wellToTank.kgPerDay),
                        co2.lifeCycle.kgPerDay)

\* a result in which all three parts of the car total are at work
C6_Witness ==
    /\ Succeeded
    /\ LET e == outcome.result.perMode["Car"]
       IN  ~IsZero(e.ttw) /\ ~IsZero(e.wtt) /\ ~IsZero(e.lca) /\ ~IsZero(e.total)
    /\ ~IsZero(outcome.result.totals.co2.lifeCycle.kgPerDay)

\* the yearly figure is the daily one / 1000 * 365.25, and the figure per
\* 1000 inhabitants is the yearly one / inhabitants * 1000
Converted(daily, yearly, per1000, inhabitants) ==
    /\ IF IsZero(daily) THEN IsZero(yearly)
       ELSE RDiv(yearly, daily) = RDiv(Q(36525, 100), Q(1000, 1))
    /\ IF IsZero(yearly) THEN IsZero(per1000)
       ELSE RDiv(per1000, yearly) = RDiv(Q(1000, 1), Q(inhabitants, 1))

\* C7: in each of the four CO2 blocks tonPerYear = kgPerDay / 1000 * 365.25
\* and tonPerYearPer1000 = tonPerYear / inhabitants * 1000; the NOx and PM
\* blocks convert gPerDay to kgPerYear and kgPerYearPer1000 the same way.
C7_UnitConversions ==
    Succeeded =>
        LET tot == outcome.result.totals
        IN  /\ \A b \in {"total", "tankToWheel", "wellToTank", "lifeCycle"} :
                  Converted(tot.co2[b].kgPerDay, tot.co2[b].tonPerYear,
                            tot.co2[b].tonPerYearPer1000, Args.inhabitants)
            /\ \A b \in {"nox", "pm"} :
                  Converted(tot.airQuality[b].gPerDay, tot.airQuality[b].kgPerYear,
                            tot.airQuality[b].kgPerYearPer1000, Args.inhabitants)

\* a town of 500 inhabitants with CO2 and NOx figures other than 0
C7_Witness ==
    /\ Succeeded
    /\ Args.inhabitants = 500
    /\ ~IsZero(outcome.result.totals.co2.total.kgPerDay)
    /\ ~IsZero(outcome.result.totals.airQuality.nox.gPerDay)

ice_column(mode) ==
    CASE mode = "Car" -> "ICEcar" [] mode = "Bike" -> "bike"
      [] mode = "Moped" -> "ICEmoped" [] mode = "Other" -> "other"

ev_column(mode) ==
    CASE mode = "Car" -> "ecar" [] mode = "Bike" -> "ebike"
      [] mode = "Moped" -> "emoped" [] mode = "Other" -> "eother"

mode_of_column(col) ==
    CASE col \in {"ICEcar", "ecar"} -> "Car" [] col \in {"bike", "ebike"} -> "Bike"
      [] col \in {"ICEmoped", "emoped"} -> "Moped" [] col = "escooter" -> "e-Scooter"
      [] col \in {"other", "eother"} -> "Other"

\* the vehicle row carries the split of the fleet entries picked by counts(_)
FleetSplit(counts(_)) ==
    LET F == Args.shared_modes
        V == df_var_nms.rows[1].v
    IN  /\ df_var_nms.rows[1].variable = "Number of vehicles"
        /\ \A i \in DOMAIN F :
              LET n == F[i].numVehicles
                  p == F[i].percentageElectric
              IN  counts(i) =>
                    /\ F[i].mode \in {"Car", "Bike", "Moped", "Other"} =>
                          /\ V[ice_column(F[i].mode)] =
                                 RDiv(RMul(n, RSub(Q(100, 1), p)), Q(100, 1))
                          /\ V[ev_column(F[i].mode)] = RDiv(RMul(n, p), Q(100, 1))
                          /\ RAdd(V[ice_column(F[i].mode)], V[ev_column(F[i].mode)]) = n
                    /\ F[i].mode = "e-Scooter" => V["escooter"] = n
        /\ \A c \in Range(expected_columns) :
              (\A i \in DOMAIN F : F[i].mode # mode_of_column(c)) => V[c] = Zero

EveryEntry(i) == TRUE

LastOfItsMode(i) ==
    \A j \in DOMAIN Args.shared_modes :
        j > i => Args.shared_modes[j].mode # Args.shared_modes[i].mode

\* C8 as stated: every fleet entry of mode Car, Bike, Moped or Other shows in
\* the vehicle row as n*(100-p)/100 combustion and n*p/100 electric vehicles,
\* every e-Scooter entry as n, and the columns of modes without an entry are 0.
C8_EveryFleetEntrySplits ==
    NmsPrepared => FleetSplit(EveryEntry)

\* C8 amended: the last fleet entry of each mode shows in the vehicle row as
\* n*(100-p)/100 combustion and n*p/100 electric vehicles (n for an
\* e-Scooter entry), an earlier entry of the same mode is overwritten, and
\* the columns of modes without an entry are 0.
C8_LastFleetEntrySplits ==
    NmsPrepared => FleetSplit(LastOfItsMode)

\* a car fleet split 60/20, a scooter fleet taken whole, no bikes
C8_Witness ==
    /\ NmsPrepared
    /\ \E i \in DOMAIN Args.shared_modes :
          /\ Args.shared_modes[i] = Fleet("Car", 80, 25)
          /\ LastOfItsMode(i)
    /\ \E i \in DOMAIN Args.shared_modes :
          /\ Args.shared_modes[i] = Fleet("e-Scooter", 40, 25)
          /\ LastOfItsMode(i)
    /\ df_var_nms.rows[1].v["ICEcar"] = Q(60, 1)
    /\ df_var_nms.rows[1].v["ecar"] = Q(20, 1)
    /\ df_var_nms.rows[1].v["escooter"] = Q(40, 1)
    /\ df_var_nms.rows[1].v["bike"] = Zero

IsNumber(x) == DOMAIN x = {"n", "d"} /\ x.d > 0

Complete(res) ==
    /\ DOMAIN res = {"perMode", "totals"}
    /\ DOMAIN res.perMode = {"Car", "Bike", "Moped", "e-Scooter", "Other"}
    /\ \A m \in DOMAIN res.perMode :
          /\ DOMAIN res.perMode[m] = {"ttw", "wtt", "lca", "total", "nox", "pm"}
          /\ \A f \in DOMAIN res.perMode[m] : IsNumber(res.perMode[m][f])
    /\ DOMAIN res.totals = {"co2", "airQuality"}
    /\ DOMAIN res.totals.co2 = {"total", "tankToWheel", "wellToTank", "lifeCycle"}
    /\ \A b \in DOMAIN res.totals.co2 :
          /\ DOMAIN res.totals.co2[b] = {"kgPerDay", "tonPerYear", "tonPerYearPer1000"}
          /\ \A u \in DOMAIN res.totals.co2[b] : IsNumber(res.totals.co2[b][u])
    /\ DOMAIN res.totals.airQuality = {"nox", "pm"}
    /\ \A b \in DOMAIN res.totals.airQuality :
          /\ DOMAIN res.totals.airQuality[b] = {"gPerDay", "kgPerYear", "kgPerYearPer1000"}
          /\ \A u \in DOMAIN res.totals.airQuality[b] :
                IsNumber(res.totals.airQuality[b][u])

\* C9: an invocation either raises an error and returns nothing, or returns
\* a complete result: five per-mode entries with ttw, wtt, lca, total, nox
\* and pm, four CO2 blocks and two air-quality blocks of three units each.
C9_ErrorOrCompleteResult ==
    pc = "done" =>
        IF outcome.err = "none" THEN Complete(outcome.result)
        ELSE outcome.result = <<>>

\* an invocation that failed after the per-mode figures were computed
C9_Witness ==
    /\ pc = "done"
    /\ outcome.err = "ZeroDivisionError"
    /\ outcome.raised_in = "_format_results"
    /\ outcome.result = <<>>
    /\ Args.inhabitants = 0

\* C10: a shape failure after normalisation (a wrong number of rows or
\* columns, result rows out of order) is answered with status 500, not 400,
\* and the response carries no detail derived from the error.
C10_ShapeFailureIsInternalError ==
    (pc = "done" /\ call.via = "route"
     /\ outcome.err = "ValueError"
     /\ outcome.raised_in \in {"_prepare_trad_variables", "_perform_calculations",
                               "_format_results"})
    => (response.status_code = 500 /\ outcome.err \notin Range(response.detail))

(***************************************************************************)
(* C11: determinism                                                        *)
(***************************************************************************)
\* a map with its keys listed the other way round
ReverseKeys(d) ==
    [keys |-> [i \in DOMAIN d.keys |-> d.keys[Len(d.keys) + 1 - i]], val |-> d.val]

\* the arguments of the current call with the keys of its variable maps in
\* another order; for a request the maps of the request are reordered
KeyOrders ==
    IF call.via = "route"
    THEN {endpoint_args(call.request),
          endpoint_args([call.request EXCEPT
                           !.variables.traditionalModes = ReverseKeys(@)]),
          endpoint_args([call.request EXCEPT
                           !.variables.sharedServices = ReverseKeys(@)])}
    ELSE {call.args,
          [call.args EXCEPT !.variables.traditionalModes = ReverseKeys(@)],
          [call.args EXCEPT !.variables.sharedServices = ReverseKeys(@)]}

SameOutcome(r) ==
    /\ r.err = outcome.err
    /\ r.raised_in = outcome.raised_in
    /\ r.result = outcome.result

\* the entry of a mode computed from the result rows with the matching
\* columns of df_results in the order hits
SumsInOrder(mode, hits) ==
    LET sum_co2 == [i \in 1 .. 4 |->
                      sum_filtered(df_calc.df_results.rows[i].v, hits,
                                   filter_pattern(mode))]
        entry == outcome.result.perMode[mode]
    IN  /\ entry.ttw = RAdd(sum_co2[1], sum_co2[3])
        /\ entry.wtt = RAdd(sum_co2[2], sum_co2[4])

\* C11: the outcome of a call is the outcome of calculate_emissions on the
\* same inputs, with the same reference data and with the keys of the
\* traditional-mode and shared-service maps in any order: the same result in
\* every field, or the same failure; and the result of a successful call is
\* the one computed with the columns of every mode in any order in which the
\* result columns can have been listed.
C11_OutcomeIsAFunctionOfTheInputs ==
    pc = "done" =>
       /\ \A a \in KeyOrders : SameOutcome(Run(a, GetDataLoader))
       /\ Succeeded =>
             \A mode \in Range(NMS_TYPES) :
                \A hits \in list_of_set(filter_regex(df_calc.df_results.cols,
                                                    filter_pattern(mode))) :
                   SumsInOrder(mode, hits)

\* the same for the calls in which every key names a column of its own
C11_HoldsWithoutCollidingKeys ==
    (pc = "done" /\ ~KeysCollide) => C11_OutcomeIsAFunctionOfTheInputs

(***************************************************************************)
(* C12: the per-category sums                                              *)
(***************************************************************************)
\* the columns of a category as the specification lists them
Category(mode) ==
    CASE mode = "Car" -> {"ICEcar", "ecar"}
      [] mode = "Bike" -> {"bike", "ebike"}
      [] mode = "Moped" -> {"ICEmoped", "emoped"}
      [] mode = "e-Scooter" -> {"escooter"}
      [] mode = "Other" -> {"other", "eother"}

\* the sum of a row over the expected columns that lie in K, empty cells as 0
SumOver(row, K) ==
    SumSeq([i \in DOMAIN expected_columns |->
              IF expected_columns[i] \in K THEN fillna(row[expected_columns[i]]) ELSE Zero])

TableSumOver(df, K) ==
    SumSeq([i \in DOMAIN df.rows |-> SumOver(df.rows[i], K)])

\* C12: every one of the nine columns lies in exactly one category, and the
\* entry of each category is the sum over its columns: ttw of the rows
\* TTW_trad and TTW_nms, wtt of the rows WTT_trad and WTT_nms, lca, nox and pm
\* of all rows of their tables.
C12_EachColumnInOneCategory ==
    /\ \A c \in Range(expected_columns) :
          Cardinality({m \in Range(NMS_TYPES) : c \in Category(m)}) = 1
    /\ Succeeded =>
          \A m \in Range(NMS_TYPES) :
             LET entry == outcome.result.perMode[m]
                 res == df_calc.df_results.rows
             IN  /\ entry.ttw = RAdd(SumOver(res[1].v, Category(m)),
                                     SumOver(res[3].v, Category(m)))
                 /\ entry.wtt = RAdd(SumOver(res[2].v, Category(m)),
                                     SumOver(res[4].v, Category(m)))
                 /\ entry.lca = TableSumOver(df_calc.avg_co2_lca, Category(m))
                 /\ entry.nox = TableSumOver(df_calc.avg_nox, Category(m))
                 /\ entry.pm = TableSumOver(df_calc.avg_pm, Category(m))

\* a result in which both columns of Car carry emissions in the CO2 rows and
\* in the life-cycle table, computed from a table that has a tenth column
C12_Witness ==
    /\ Succeeded
    /\ "cargo" \in Range(df_var_nms.cols)
    /\ \A c \in {"ICEcar", "ecar"} :
          /\ ~IsZero(df_calc.df_results.rows[4].v[c])
          /\ ~IsZero(df_calc.df_results.rows[2].v[c])
          /\ ~IsZero(df_calc.avg_co2_lca.rows[1][c])

(***************************************************************************)
(* C13: the TTW_nms row                                                    *)
(***************************************************************************)
\* a call that got as far as the result tables
Calculated == pc = "done" /\ df_calc # NoCalc

ResultRow(name) ==
    df_calc.df_results.rows[CHOOSE i \in 1 .. 4 :
                               df_calc.df_results.rows[i].variable = name].v

\* total km of a column times a factor per km, in kg
KmTimes(c, factor) == RDiv(RMul(df_calc.total_km_travelled[c], factor), Q(1000, 1))

ttw_ice(c) == KmTimes(c, iloc(df_var_nms, 2)[c])

ttw_ev(c) == KmTimes(c, RMul(df_var_gen[1].general, iloc(df_var_nms, 5)[c]))

\* the first row of the shared-service table that has the name
NmsRow(name) ==
    LET named == {j \in DOMAIN df_var_nms.rows : df_var_nms.rows[j].variable = name}
    IN  df_var_nms.rows[CHOOSE j \in named : \A k \in named : j <= k].v

\* total_km x the tank-to-wheel factor of the column / 1000
TtwIce(c) == KmTimes(c, NmsRow(lst_var_nms[2])[c])

\* total_km x electricityCo2 x the efficiency of the column / 1000
TtwEv(c) == KmTimes(c, RMul(df_var_gen[1].general, NmsRow(lst_var_nms[5])[c]))

\* C13: the TTW_nms row holds ttw_ev = total_km x electricityCo2 x efficiency
\* / 1000 where that is not 0 and ttw_ice = total_km x ttwFactorIce / 1000
\* elsewhere, the factor and the efficiency being the rows of those names.
C13_TtwNmsIsEvWhereNonZero ==
    Calculated =>
       \A c \in Range(df_var_nms.cols) :
          ResultRow("avg_co2_TTW_nms")[c] =
             IF IsZero(TtwEv(c)) THEN TtwIce(c) ELSE TtwEv(c)

\* what the code puts in the row: ttw_ice with the factor taken from the
\* third row of the shared-service table, without an electricity term
C13_TtwNmsIsIce ==
    Calculated =>
       \A c \in Range(df_var_nms.cols) : ResultRow("avg_co2_TTW_nms")[c] = ttw_ice(c)

(***************************************************************************)
(* C14: the WTT_nms row                                                    *)
(***************************************************************************)
\* 1 / (1 - wttFraction / 100) - 1 with the fraction of the general table
wttMultiplier ==
    RSub(RDiv(One, RSub(One, RDiv(df_var_gen[2].general, Q(100, 1)))), One)

\* the shared-service table has its 17 rows, each under its name
CanonicalNmsTable ==
    [j \in DOMAIN df_var_nms.rows |-> df_var_nms.rows[j].variable]
        = <<"Number of vehicles">> \o lst_var_nms

\* C14: the WTT_nms row of every column is total_km x electricityCo2 x
\* efficiency / 1000 where that is not 0, and ttw_ice x (1 / (1 - wttFraction /
\* 100) - 1) elsewhere; the efficiency and the factor of ttw_ice are the rows
\* of those names.
C14_WttNmsIsEvElseIceShare ==
    Calculated =>
       \A c \in Range(df_var_nms.cols) :
          ResultRow("avg_co2_WTT_nms")[c] =
             IF IsZero(TtwEv(c)) THEN RMul(TtwIce(c), wttMultiplier) ELSE TtwEv(c)

\* the same for the calls whose shared-service table is canonical
C14_HoldsForCanonicalTable ==
    CanonicalNmsTable => C14_WttNmsIsEvElseIceShare

(***************************************************************************)
(* C15: the rows TTW_trad and WTT_trad                                     *)
(***************************************************************************)
\* the value of a row of the traditional-mode table for a mode, by its name
TradFactor(mode, r) ==
    IF mode \in Range(df_var_trad.cols) THEN iloc(df_var_trad, r)[mode] ELSE Zero

\* decreased distance of a traditional mode in a column times a factor, in kg
Saved(mode, c, factor) ==
    RDiv(RMul(df_calc.decreased_distance[Pos(TRAD_TYPES, mode)][c], factor), Q(1000, 1))

\* C15: TTW_trad sums decreased distance x tank-to-wheel factor / 1000 over
\* private_car and pt_road; WTT_trad sums decreased distance x factor / 1000
\* over pt_rail (factor electricityCo2 x rail efficiency), cycling and walking
\* and adds the well-to-tank share of the two TTW terms; each factor is that
\* of the mode whose distance it multiplies.
C15_TradRowsUseEachModesOwnFactor ==
    Calculated =>
       \A c \in Range(df_var_nms.cols) :
          LET ttw(m) == Saved(m, c, TradFactor(m, 0))
              rail == Saved("pt_rail", c,
                            RMul(df_var_gen[1].general, TradFactor("pt_rail", 3)))
          IN  /\ ResultRow("avg_co2_TTW_trad")[c] = RAdd(ttw("private_car"), ttw("pt_road"))
              /\ ResultRow("avg_co2_WTT_trad")[c] =
                    SumSeq(<<rail, ttw("cycling"), ttw("walking"),
                             RMul(ttw("private_car"), wttMultiplier),
                             RMul(ttw("pt_road"), wttMultiplier)>>)

\* the same for the calls whose traditional-mode table has all five modes
C15_HoldsForFiveModes ==
    Len(df_var_trad.cols) = 5 => C15_TradRowsUseEachModesOwnFactor

(***************************************************************************)
(* C16: trips, replaced trips, decreased distance and total km             *)
(***************************************************************************)
\* the cells of a shared-service column the distances are computed from
TripInputs(c) ==
    {NmsRow("Number of vehicles")[c], NmsRow(lst_var_nms[1])[c]}
        \cup {NmsRow(lst_var_nms[6 + m])[c] : m \in 1 .. 5}
        \cup {NmsRow(lst_var_nms[11 + m])[c] : m \in 1 .. 5}

\* C16: in every column, total trips = vehicles x trips per day; for each of
\* the five traditional modes replaced trips = total trips x the share of the
\* mode / 100 and decreased distance = -(replaced trips x the average distance
\* of the mode), which is never positive when the inputs are not negative;
\* total km is the sum of replaced trips x average distance over the modes,
\* the negated sum of the decreased distances.  Vehicles, trips per day,
\* shares and distances are the rows of those names.
C16_TripsAndDistances ==
    Calculated =>
       \A c \in Range(df_var_nms.cols) :
          LET trips == RMul(NmsRow("Number of vehicles")[c], NmsRow(lst_var_nms[1])[c])
              repl(m) == RMul(trips, RDiv(NmsRow(lst_var_nms[6 + m])[c], Q(100, 1)))
              dist(m) == NmsRow(lst_var_nms[11 + m])[c]
          IN  /\ df_calc.total_trips[c] = trips
              /\ \A m \in 1 .. 5 :
                    /\ df_calc.replaced_trip[m][c] = repl(m)
                    /\ df_calc.decreased_distance[m][c] = RNeg(RMul(repl(m), dist(m)))
                    /\ (\A x \in TripInputs(c) : RLeq(Zero, x))
                          => RLeq(df_calc.decreased_distance[m][c], Zero)
              /\ df_calc.total_km_travelled[c] =
                    SumSeq([m \in 1 .. 5 |-> RMul(repl(m), dist(m))])
              /\ df_calc.total_km_travelled[c] =
                    RNeg(SumSeq([m \in 1 .. 5 |-> df_calc.decreased_distance[m][c]]))

\* the same for the calls whose shared-service table is canonical
C16_HoldsForCanonicalTable ==
    CanonicalNmsTable => C16_TripsAndDistances

(***************************************************************************)
(* C17: life-cycle CO2, NOx and PM                                         *)
(***************************************************************************)
\* a table of df_calc holds, for every expected column, the decreased distance
\* of each traditional mode times the factor of that mode in row r_trad of the
\* traditional-mode table, and the total km times the column's own factor in
\* row r_nms of the shared-service table, both divided by 1000
OwnFactors(df, r_trad, r_nms) ==
    \A c \in Range(expected_columns) :
       /\ \A m \in 1 .. 5 :
             df.rows[m][c] = Saved(TRAD_TYPES[m], c, TradFactor(TRAD_TYPES[m], r_trad))
       /\ df.rows[6][c] = KmTimes(c, iloc(df_var_nms, r_nms)[c])

\* C17: life-cycle CO2, NOx and PM of a shared-service column are the sum over
\* the five traditional modes of decreased distance x the factor of that same
\* mode / 1000, plus the column's own factor x total km / 1000.
C17_EachModeScaledByItsOwnFactor ==
    Calculated =>
       /\ OwnFactors(df_calc.avg_co2_lca, 4, 6)
       /\ OwnFactors(df_calc.avg_nox, 1, 3)
       /\ OwnFactors(df_calc.avg_pm, 2, 4)

\* the same for the calls whose traditional-mode table has all five modes
C17_HoldsForFiveModes ==
    Len(df_var_trad.cols) = 5 => C17_EachModeScaledByItsOwnFactor

(***************************************************************************)
(* C18: the country-derived defaults of the private car                    *)
(***************************************************************************)
\* the call reached the calculation with a private-car column in its table
DefaultsApplied ==
    /\ pc = "done"
    /\ outcome.raised_in \in {"", "_perform_calculations", "_format_results"}
    /\ "private_car" \in Range(df_var_trad.cols)

registration_year == round(RSub(Q(2024, 1), country_table[Args.country].averageAge))

yearIndex == MaxYear - registration_year

\* petrol share / 100 x petrol limit + diesel share / 100 x diesel limit, x 1000
FuelWeighted(petrol_limit, diesel_limit) ==
    LET fuel == country_table[Args.country].fuelDistribution
    IN  RMul(RAdd(RMul(RDiv(fuel.petrol, Q(100, 1)), petrol_limit),
                  RMul(RDiv(fuel.diesel, Q(100, 1)), diesel_limit)),
             Q(1000, 1))

\* C18: the tank-to-wheel CO2 of the private car is the country's new-car CO2
\* at yearIndex = maxYear - round(2024 - averageAge), times 1.4 when that
\* registration year is at most 2020 and times 1.14 otherwise; its NOx and PM
\* are the petrol and diesel limits of that year weighted by the petrol and
\* diesel shares, times 1000, without a term for the electric share.
C18_PrivateCarDefaults ==
    DefaultsApplied =>
       /\ TradFactor("private_car", 0) =
             RMul(car_co2(yearIndex, Args.country),
                  IF registration_year <= 2020 THEN Q(14, 10) ELSE Q(114, 100))
       /\ TradFactor("private_car", 1) =
             FuelWeighted(air_emission(yearIndex, "petrol_nox"),
                          air_emission(yearIndex, "diesel_nox"))
       /\ TradFactor("private_car", 2) =
             FuelWeighted(air_emission(yearIndex, "petrol_pm"),
                          air_emission(yearIndex, "diesel_pm"))

\* a country whose cars were registered in 2020 on average and has electric
\* cars in its fleet
C18_Witness ==
    /\ DefaultsApplied
    /\ registration_year = 2020
    /\ TradFactor("private_car", 0) = Q(280, 1)
    /\ ~IsZero(country_table[Args.country].fuelDistribution.ev)
    /\ ~IsZero(TradFactor("private_car", 1))

(***************************************************************************)
(* C19: the shape of the normalized tables                                 *)
(***************************************************************************)
\* the rows of a table carry exactly these labels, in this order
HasRows(df, labels) ==
    /\ Len(df.rows) = Len(labels)
    /\ \A i \in DOMAIN labels : df.rows[i].variable = labels[i]

\* every cell of a table is a number
Filled(df) ==
    \A i \in DOMAIN df.rows : \A c \in Range(df.cols) : ~IsNaN(df.rows[i].v[c])

TradTableIsCanonical ==
    (pc = "done" /\ df_var_trad # NoTable) =>
       HasRows(df_var_trad, lst_var_trad) /\ Filled(df_var_trad)

NmsTableIsCanonical ==
    (pc = "done" /\ df_var_nms # NoTable) =>
       HasRows(df_var_nms, <<"Number of vehicles">> \o lst_var_nms) /\ Filled(df_var_nms)

\* C19: whenever the normalization returns, the traditional-mode table has
\* exactly the 5 canonical rows and the shared-service table exactly 17 rows,
\* the vehicle count and the 16 canonical rows, in canonical order and with a
\* number in every cell, whatever row lists were supplied.
C19_TablesAreCanonical ==
    TradTableIsCanonical /\ NmsTableIsCanonical

(***************************************************************************)
(* C20: categories a request leaves out or leaves empty                    *)
(***************************************************************************)
\* the key of the request map that carries a traditional mode
trad_request_key(mode) ==
    CASE mode = "private_car" -> "privateCar"
      [] mode = "pt_road" -> "ptRoad"
      [] mode = "pt_rail" -> "ptRail"
      [] OTHER -> "activeTransport"

\* the request map d has no rows for a category under any of these keys
Unsupplied(d, keys) ==
    \A k \in keys : ~DictHas(d, k) \/ d.val[k] = <<>>

\* the map handed to calculate_emissions has the default rows under key
Defaulted(d, defaults, key) ==
    DictHas(d, key) /\ d.val[key] = defaults.val[key]

TradCategoriesDefaulted ==
    (pc = "done" /\ call.via = "route") =>
       \A mode \in Range(TRAD_TYPES) :
          Unsupplied(call.request.variables.traditionalModes, {trad_request_key(mode)})
             => Defaulted(Args.variables.traditionalModes, default_trad_modes, mode)

ServiceCategoriesDefaulted ==
    (pc = "done" /\ call.via = "route") =>
       \A key \in Range(default_shared_services.keys) :
          Unsupplied(call.request.variables.sharedServices,
                     {k \in Range(call.request.variables.sharedServices.keys) :
                         shared_services_key_map(k) = key})
             => Defaulted(Args.variables.sharedServices, default_shared_services, key)

\* C20: a request that leaves a traditional-mode or shared-service category
\* out, or supplies an empty list for it, is calculated with the hard-coded
\* default rows of that category, and the preparation of the tables does not
\* fail on a table without rows.
C20_MissingOrEmptyCategoryGetsDefaults ==
    /\ TradCategoriesDefaulted
    /\ ServiceCategoriesDefaulted
    /\ (pc = "done" /\ call.via = "route") =>
          ~(/\ outcome.err = "KeyError"
            /\ outcome.raised_in \in {"_prepare_nms_variables", "_prepare_trad_variables"})

(***************************************************************************)
(* C21: cycling and walking from activeTransport                           *)
(***************************************************************************)
\* the rows a request supplies under activeTransport, none when it has no such key
active_supplied ==
    IF DictHas(call.request.variables.traditionalModes, "activeTransport")
    THEN call.request.variables.traditionalModes.val["activeTransport"]
    ELSE <<>>

\* C21: with two or more activeTransport rows cycling is the first row alone
\* and walking the second row alone; with exactly one row both are that row;
\* with no row, or no activeTransport key, both are their hard-coded defaults.
C21_ActiveTransportSplit ==
    (pc = "done" /\ call.via = "route") =>
       LET trad == Args.variables.traditionalModes
       IN  /\ DictHas(trad, "cycling") /\ DictHas(trad, "walking")
           /\ Len(active_supplied) >= 2 =>
                 /\ trad.val["cycling"] = <<active_supplied[1]>>
                 /\ trad.val["walking"] = <<active_supplied[2]>>
           /\ Len(active_supplied) = 1 =>
                 /\ trad.val["cycling"] = <<active_supplied[1]>>
                 /\ trad.val["walking"] = <<active_supplied[1]>>
           /\ Len(active_supplied) = 0 =>
                 /\ trad.val["cycling"] = default_trad_modes.val["cycling"]
                 /\ trad.val["walking"] = default_trad_modes.val["walking"]

\* three different rows supplied: walking is the second, the third is unused
C21_Witness ==
    /\ pc = "done"
    /\ call.via = "route"
    /\ Len(active_supplied) = 3
    /\ active_supplied[1] # active_supplied[2]
    /\ active_supplied[3] # active_supplied[2]
    /\ Args.variables.traditionalModes.val["walking"] = <<active_supplied[2]>>

(***************************************************************************)
(* C22: categories without vehicles                                        *)
(***************************************************************************)
\* every shared-service column of the category has vehicle count 0
NoVehicles(mode) ==
    \A c \in Category(mode) : IsZero(iloc(df_var_nms, 0)[c])

AllZeroEntry(entry) ==
    /\ IsZero(entry.ttw) /\ IsZero(entry.wtt) /\ IsZero(entry.lca)
    /\ IsZero(entry.total) /\ IsZero(entry.nox) /\ IsZero(entry.pm)

\* C22: in every result, a category whose columns all have vehicle count 0
\* has ttw, wtt, lca, total, nox and pm equal to 0.
C22_NoVehiclesNoEmissions ==
    Succeeded =>
       \A mode \in Range(NMS_TYPES) :
          NoVehicles(mode) => AllZeroEntry(outcome.result.perMode[mode])

\* a fleet entry with 0 vehicles for a category whose tables are filled in,
\* next to a category with vehicles and emissions
C22_Witness ==
    /\ Succeeded
    /\ call.via = "core"
    /\ \E i \in DOMAIN call.args.shared_modes :
          /\ call.args.shared_modes[i].mode = "Bike"
          /\ IsZero(call.args.shared_modes[i].numVehicles)
    /\ NoVehicles("Bike")
    /\ ~IsZero(iloc(df_var_nms, 1)["bike"])
    /\ ~IsZero(iloc(df_var_nms, 6)["ebike"])
    /\ NoVehicles("Other")
    /\ \E mode \in Range(NMS_TYPES) : ~IsZero(outcome.result.perMode[mode].total)

(***************************************************************************)
(* C23: serving a calculation request writes neither the variable store    *)
(* nor the loaded reference data nor the request, and its answer is the    *)
(* answer to the request alone, whatever was saved before.                 *)
(***************************************************************************)
AnswerTo(request) == http_response(Run(endpoint_args(request), GetDataLoader))

\* the files on disk may change between the requests (FilesChange)
\* C23: the step that serves a calculation request leaves the variable
\* store, the files and the request as they were, and a loader that was
\* loaded before stays the same instance, not read again (only a first
\* request, with nothing loaded yet, loads); the response is the one the
\* request alone determines, given what the loader gives
C23_CalculationReadsOnlyItsRequest ==
    [][(pc = "called" /\ pc' = "done") =>
          /\ _variables_storage' = _variables_storage
          /\ data_files' = data_files
          /\ (_data_loader # None \/ _data_loader_error # None) =>
                /\ _data_loader' = _data_loader
                /\ _data_loader_error' = _data_loader_error
                /\ loads' = loads
          /\ call' = call
          /\ response' = AnswerTo(call.request)]_vars

\* a request answered with a result after variables were saved
C23_Witness ==
    /\ pc = "done"
    /\ DictHas(_variables_storage, "general")
    /\ DictHas(_variables_storage, "traditionalModes")
    /\ response.status_code = 200
    /\ _data_loader # None
    /\ call.request.variables.general # get_general_variables(_variables_storage)

\* a request answered 500 with the error cached when the files were missing,
\* after they have appeared
C23_WitnessOfCachedError ==
    /\ pc = "done"
    /\ data_files = "readable"
    /\ _data_loader = None
    /\ _data_loader_error # None
    /\ outcome.err = "FileNotFoundError"
    /\ response.status_code = 500
    /\ loads = 1

(***************************************************************************)
(* C24: the defaults of a shared-service category and the rows they land on *)
(***************************************************************************)
\* the rows the default values of a category are meant for, in the order of
\* its list in default_inputs_map
DefaultNames(mode) ==
    CASE mode \in {"ICEcar", "ICEmoped", "other"} -> ice_names
      [] mode = "bike" -> bike_names
      [] OTHER -> ev_names

\* the cell of the prepared shared-service table in the row of this name
CellOf(name, c) == iloc(df_var_nms, var_to_lst_idx_map(name) + 1)[c]

\* a request that leaves every shared-service table to the route
RouteDefaultTables ==
    /\ pc = "done"
    /\ call.via = "route"
    /\ call.request.variables.sharedServices = EmptyDict
    /\ df_var_nms # NoTable

DefaultsOnMatchingRows(mode) ==
    \A k \in DOMAIN DefaultNames(mode) :
        CellOf(DefaultNames(mode)[k], mode) =
            default_inputs_map(mode, modal_split_dict(call.request))[k]

\* C24: for each of the nine shared-service categories whose table is the
\* route's default table with every userInput 0, each default value is in
\* the row of the name it is meant for (trips per day, emission factors,
\* efficiency, life-cycle factor, the modal-split shares in the "Replaces"
\* rows and the category's distances in the "Average trip distance" rows).
C24_DefaultsLandOnMatchingRows ==
    RouteDefaultTables => \A mode \in Range(expected_columns) : DefaultsOnMatchingRows(mode)

\* the same for the eight categories other than emoped
C24_HoldsExceptEmoped ==
    RouteDefaultTables =>
        \A mode \in Range(expected_columns) \ {"emoped"} : DefaultsOnMatchingRows(mode)

\* the efficiency row of emoped holds the share of PT road
C24_EmopedShifted ==
    /\ RouteDefaultTables
    /\ CellOf(lst_var_nms[5], "emoped") = modal_split_dict(call.request).ms_road
    /\ CellOf(lst_var_nms[2], "emoped") = Q(33, 1000)

(***************************************************************************)
(* C25: the columns of the traditional-mode table                          *)
(***************************************************************************)
\* the modes of TRAD_TYPES the call supplies, in the order of TRAD_TYPES
SuppliedModes ==
    SelectSeq(TRAD_TYPES, LAMBDA mode : DictHas(Args.variables.traditionalModes, mode))

\* C25: whenever _perform_calculations runs, the data columns of the
\* traditional-mode table are private_car, pt_road, pt_rail, cycling and
\* walking in this order, whatever the key order of the input map and also
\* when private_car is not supplied, so that the i-th factor belongs to the
\* i-th traditional mode and the rail efficiency is read from pt_rail.
C25_TradColumnsAreTheFiveModes ==
    Calculated => df_var_trad.cols = TRAD_TYPES

\* the columns are the supplied modes in the order of TRAD_TYPES, whatever
\* the key order; they are the five modes when all five are supplied
C25_ColumnsAreTheSuppliedModes ==
    Calculated => df_var_trad.cols = SuppliedModes

\* a calculation on a table whose keys came in another order
C25_Witness ==
    /\ Calculated
    /\ Args.variables.traditionalModes.keys # SuppliedModes
    /\ df_var_trad.cols = TRAD_TYPES

(***************************************************************************)
(* C26: the private-car-defaults endpoint and the engine                   *)
(***************************************************************************)
\* C26: for every country name the private-car-defaults endpoint answers
\* with the TTW CO2, NOx and PM values the engine writes into the private_car
\* column, and it fails exactly when the engine's default update fails (the
\* reference data cannot be loaded, the country is unknown, or its model
\* year is outside the tables).
C26_EndpointAgreesWithEngine ==
    data_response.endpoint = "private-car-defaults" =>
        LET engine == EngineDefaults(data_response.country)
            answer == data_response.answer
        IN  /\ answer.status_code = 200
                  <=> (_data_loader_error = None /\ engine.err = "none")
            /\ answer.status_code = 200 =>
                  /\ Len(answer.body) = 4
                  /\ \A i \in 1 .. 3 : answer.body[i].defaultValue = engine.values[i]
                  /\ \A i \in 1 .. 3 : answer.body[i].variable = lst_var_trad[i]
            /\ answer.status_code # 200 => answer.status_code = 400 /\ answer.body = <<>>

\* defaults served for a fleet registered before 2021
C26_Witness ==
    /\ data_response.endpoint = "private-car-defaults"
    /\ data_response.country = "Austria"
    /\ data_response.answer.status_code = 200
    /\ data_response.answer.body[1].defaultValue =
           RMul(car_co2(3, "Austria"), Q(14, 10))

\* the endpoint fails where the engine fails on the model year
C26_WitnessOfFailure ==
    /\ data_response.endpoint = "private-car-defaults"
    /\ data_response.country = "Greece"
    /\ _data_loader # None
    /\ data_response.answer.status_code = 400
    /\ EngineDefaults("Greece").err = "KeyError"

(***************************************************************************)
(* C27: what GET returns after saves                                       *)
(***************************************************************************)
\* the rows last saved under a key of a table of the store, or the defaults
SavedOr(table, key, defaults) ==
    DictGet(DictGet(_variables_storage, table, EmptyDict), key, defaults)

\* the traditional-mode tables when saved active-transport rows are returned
\* from min_active rows on
ClaimedTraditionalModes(min_active) ==
    LET d == variables_default_trad_modes
        default_active == d.val["cycling"] \o d.val["walking"]
        saved_active == SavedOr("traditionalModes", "active_transport", default_active)
    IN  [privateCar |-> SavedOr("traditionalModes", "private_car", <<>>),
         ptRoad |-> SavedOr("traditionalModes", "pt_road", d.val["pt_road"]),
         ptRail |-> SavedOr("traditionalModes", "pt_rail", d.val["pt_rail"]),
         activeTransport |-> IF Len(saved_active) >= min_active
                             THEN saved_active ELSE default_active]

GetAnswers(min_active) ==
    /\ variables_response.endpoint = "GET general" =>
          variables_response.body =
              DictGet(_variables_storage, "general", default_general)
    /\ variables_response.endpoint = "GET traditional-modes" =>
          variables_response.body = ClaimedTraditionalModes(min_active)
    /\ variables_response.endpoint = "GET shared-services" =>
          /\ variables_response.body.keys = variables_default_shared_services.keys
          /\ \A key \in Range(variables_default_shared_services.keys) :
                variables_response.body.val[key] =
                    SavedOr("sharedServices", key,
                            variables_default_shared_services.val[key])

\* an accepted save stores its rows under the key it names
SavesAreKept ==
    LET sent == variables_response.sent
    IN  variables_response.status_code = 200 =>
          /\ variables_response.endpoint = "POST general" =>
                _variables_storage.val["general"] = sent.variables
          /\ variables_response.endpoint = "POST traditional-modes" =>
                _variables_storage.val["traditionalModes"].val[sent.mode] = sent.variables
          /\ variables_response.endpoint = "POST shared-services" =>
                _variables_storage.val["sharedServices"].val[sent.service] = sent.variables

\* C27 as claimed: a GET returns, per key, the rows of the latest save or the
\* defaults: the general table; private_car (default: no rows), pt_road,
\* pt_rail and active_transport; each of the nine shared-service keys.
C27_GetReturnsSavedOrDefaults == GetAnswers(0)

\* C27 amended: the same, except that saved active_transport rows are
\* returned only when there are at least two of them, and the cycling and
\* walking defaults otherwise.
C27_GetReturnsSavedOrDefaultsActiveFromTwoRows == GetAnswers(2) /\ SavesAreKept

\* a GET after saves of pt_road and of a single active_transport row
C27_Witness ==
    /\ variables_response.endpoint = "GET traditional-modes"
    /\ Len(SavedOr("traditionalModes", "active_transport", <<>>)) = 1
    /\ Len(variables_response.body.activeTransport) = 2
    /\ Len(SavedOr("traditionalModes", "pt_road", <<>>)) = 2
    /\ variables_response.body.ptRoad = SubSeq(active_rows, 1, 2)

(***************************************************************************)
(* C28: what a save leaves alone                                           *)
(***************************************************************************)
\* the field of GET /traditional-modes that shows the rows of a mode
FieldOf(mode) ==
    CASE mode = "private_car" -> "privateCar"
      [] mode = "pt_road" -> "ptRoad"
      [] mode = "pt_rail" -> "ptRail"
      [] mode = "active_transport" -> "activeTransport"

\* C28: a save changes only the rows under the key it names: what GET
\* returns for every other table and key is the same before and after the
\* save; and a save answered with 400 (a mode outside private_car, pt_road,
\* pt_rail, active_transport, or a service name with other characters than
\* letters, digits and underscores) leaves the store unchanged.
C28_SaveChangesOnlyItsKey ==
    [][LET answer == variables_response'
           before == StoredTables(_variables_storage)
           after == StoredTables(_variables_storage')
       IN  /\ answer.endpoint = "POST general" =>
                 /\ after.traditionalModes = before.traditionalModes
                 /\ after.sharedServices = before.sharedServices
           /\ (answer.endpoint = "POST traditional-modes" /\ answer.status_code = 200) =>
                 /\ after.general = before.general
                 /\ after.sharedServices = before.sharedServices
                 /\ \A mode \in Range(allowed_modes) \ {answer.sent.mode} :
                       after.traditionalModes[FieldOf(mode)] =
                           before.traditionalModes[FieldOf(mode)]
           /\ (answer.endpoint = "POST shared-services" /\ answer.status_code = 200) =>
                 /\ after.general = before.general
                 /\ after.traditionalModes = before.traditionalModes
                 /\ \A key \in Range(after.sharedServices.keys) \ {answer.sent.service} :
                       after.sharedServices.val[key] = before.sharedServices.val[key]
           /\ answer.status_code = 400 => _variables_storage' = _variables_storage]_vars

\* pt_road saved after the general table, active_transport and a service
C28_Witness ==
    /\ variables_response.endpoint = "POST traditional-modes"
    /\ variables_response.status_code = 200
    /\ variables_response.sent.mode = "pt_road"
    /\ DictHas(_variables_storage, "general")
    /\ Len(SavedOr("traditionalModes", "active_transport", <<>>)) = 2
    /\ SavedOr("sharedServices", "ice_car", <<>>) # <<>>

\* a save rejected for its service name after other saves were accepted
C28_WitnessOfRejection ==
    /\ variables_response.endpoint = "POST shared-services"
    /\ variables_response.status_code = 400
    /\ variables_response.sent.service = "e-car"
    /\ DictHas(_variables_storage, "sharedServices")

(***************************************************************************)
(* C29: the reference files are read at most once                          *)
(***************************************************************************)
\* C29: across any sequence of calls of get_data_loader the reference files
\* are read at most once: once an instance exists every later call returns
\* that instance and reads nothing; once a reading failed every later call
\* raises the error of that reading and reads nothing.
C29_LoadedAtMostOnce ==
    [][/\ loads' <= 1
       /\ _data_loader # None =>
             /\ _data_loader' = _data_loader
             /\ loads' = loads
             /\ data_response'.endpoint = "get_data_loader" =>
                   /\ data_response'.returned = _data_loader
                   /\ data_response'.raised = None
       /\ _data_loader_error # None =>
             /\ _data_loader_error' = _data_loader_error
             /\ _data_loader' = None
             /\ loads' = loads
             /\ data_response'.endpoint = "get_data_loader" =>
                   /\ data_response'.raised = _data_loader_error
                   /\ data_response'.returned = None]_vars

\* the error of the first reading raised again although the files are there
C29_Witness ==
    /\ data_response.endpoint = "get_data_loader"
    /\ data_response.raised = _data_loader_error
    /\ _data_loader_error.kind = "FileNotFoundError"
    /\ _data_loader_error.missing # data_files
    /\ data_files = "readable"
    /\ loads = 1

\* the instance of the first reading returned although the files are gone
C29_WitnessOfSuccess ==
    /\ data_response.endpoint = "get_data_loader"
    /\ data_response.returned = _data_loader
    /\ _data_loader.kind = "DataLoader"
    /\ data_files # "readable"
    /\ loads = 1

(***************************************************************************)
(* C30: the WTT multiplier                                                 *)
(***************************************************************************)
\* the WTT fraction the calculation works with: row 1 of the general table
EffectiveWttFraction == df_var_gen[2].general

\* C30: for an effective WTT fraction f with 0 <= f < 100 the multiplier
\* 1 / (1 - f / 100) - 1 is defined and not negative, so that the WTT value
\* of a fuel term is its TTW value times a non-negative number; with
\* f = 100 the calculation raises, no result is returned, and a request is
\* answered with an error status and no result body.
C30_WttMultiplierDefinedBelowHundred ==
    (pc = "done" /\ df_var_gen # NoGeneral) =>
        LET f == EffectiveWttFraction
        IN  /\ (RLeq(Zero, f) /\ ~RLeq(Q(100, 1), f)) =>
                  /\ ~(/\ outcome.err = "ZeroDivisionError"
                        /\ outcome.raised_in = "_perform_calculations")
                  /\ RLeq(Zero, wttMultiplier)
                  /\ Calculated =>
                        \A c \in Range(df_var_nms.cols) :
                           IsZero(ttw_ev(c)) =>
                              /\ ResultRow("avg_co2_WTT_nms")[c] =
                                    RMul(ttw_ice(c), wttMultiplier)
                              /\ RLeq(Zero, ttw_ice(c)) =>
                                    RLeq(Zero, ResultRow("avg_co2_WTT_nms")[c])
                              /\ RLeq(ttw_ice(c), Zero) =>
                                    RLeq(ResultRow("avg_co2_WTT_nms")[c], Zero)
            /\ f = Q(100, 1) =>
                  /\ outcome.err # "none"
                  /\ outcome.result = <<>>
                  /\ df_calc = NoCalc
                  /\ call.via = "route" =>
                        /\ response.status_code \in {400, 500}
                        /\ response.body = NoBody

\* a request with fraction 100 answered 500 after the division failed
C30_Witness ==
    /\ pc = "done"
    /\ call.via = "route"
    /\ df_var_gen # NoGeneral
    /\ EffectiveWttFraction = Q(100, 1)
    /\ outcome.err = "ZeroDivisionError"
    /\ outcome.raised_in = "_perform_calculations"
    /\ response.status_code = 500

\* a calculation with fraction 50: the WTT value of a fuel term is its TTW value
C30_WitnessBelowHundred ==
    /\ Calculated
    /\ EffectiveWttFraction = Q(50, 1)
    /\ wttMultiplier = One
    /\ \E c \in Range(df_var_nms.cols) :
          /\ IsZero(ttw_ev(c))
          /\ ~IsZero(ttw_ice(c))
          /\ ResultRow("avg_co2_WTT_nms")[c] = ttw_ice(c)

====
